---------------------------- MODULE Spec2Model ----------------------------
(***************************************************************************)
(* Invoice extraction, normalization and reconciliation pipeline.          *)
(*                                                                         *)
(* Two iterations of the processInvoice tool live in the repository:       *)
(*   "exec" : processInvoice.execute      (src/lib/ai/tools/process-invoice.ts) *)
(*   "impl" : processInvoiceImplementation (src/unnamed/part_001)          *)
(* Both share the store queries of src/unnamed/part_002 and the tables of  *)
(* src/unnamed/part_003.  The REST handlers PUT/DELETE /api/invoices/[id]  *)
(* are in src/app/api/invoices/[id]/route.ts.                              *)
(*                                                                         *)
(* JavaScript values are tagged records (t = "undefined", "null",          *)
(* "string", "number", "nan", "array").  Numbers are decimal fractions     *)
(* m * 10^-e kept normalized; amount strings are sequences of characters,  *)
(* the currency signs written "$", "EUR", "GBP", "YEN" (one character each).*)
(***************************************************************************)
EXTENDS Integers, Sequences, FiniteSets, TLC

(***************************************************************************)
(* Bounds of the model.                                                    *)
(***************************************************************************)
MaxIds == 2
MaxFiles == 2
MaxTextLen == 5
MaxAmountLen == 5

(***************************************************************************)
(* JavaScript values.                                                      *)
(***************************************************************************)
Undef == [t |-> "undefined"]
Null == [t |-> "null"]
NaN == [t |-> "nan"]
\* a string held as one token (names, dates, descriptions)
Str(s) == [t |-> "string", s |-> s]
\* a string held character by character (amounts)
CStr(c) == [t |-> "string", c |-> c]
Arr(a) == [t |-> "array", a |-> a]

RECURSIVE MkNum(_, _)
MkNum(m, e) ==
    IF e > 0 /\ m % 10 = 0 THEN MkNum(m \div 10, e - 1)
    ELSE [t |-> "number", m |-> m, e |-> e]

Num(n) == MkNum(n, 0)
IsString(v) == v.t = "string"
\* typeof v === 'number' (NaN is of type number)
IsNumberType(v) == v.t \in {"number", "nan"}
\* JavaScript truthiness of a value
Truthy(v) ==
    CASE v.t = "undefined" -> FALSE
      [] v.t = "null" -> FALSE
      [] v.t = "nan" -> FALSE
      [] v.t = "number" -> v.m # 0
      [] v.t = "string" -> IF "c" \in DOMAIN v THEN v.c # <<>> ELSE v.s # ""
      [] OTHER -> TRUE

\* a || b
Or(v, d) == IF Truthy(v) THEN v ELSE d

(***************************************************************************)
(* parseFloat on a sequence of characters: optional leading blanks, an     *)
(* optional sign, digits, an optional fraction; NaN when there is no digit.*)
(***************************************************************************)
Digits == {"0", "1", "2", "3", "4", "5", "6", "7", "8", "9"}
DigitVal(c) ==
    CASE c = "0" -> 0 [] c = "1" -> 1 [] c = "2" -> 2 [] c = "3" -> 3
      [] c = "4" -> 4 [] c = "5" -> 5 [] c = "6" -> 6 [] c = "7" -> 7
      [] c = "8" -> 8 [] c = "9" -> 9

RECURSIVE SkipBlanks(_)
SkipBlanks(s) == IF s # <<>> /\ Head(s) = " " THEN SkipBlanks(Tail(s)) ELSE s

RECURSIVE TakeDigits(_)
TakeDigits(s) ==
    IF s # <<>> /\ Head(s) \in Digits THEN <<Head(s)>> \o TakeDigits(Tail(s))
    ELSE <<>>

RECURSIVE DigitsToInt(_)
DigitsToInt(s) ==
    IF s = <<>> THEN 0
    ELSE 10 * DigitsToInt(SubSeq(s, 1, Len(s) - 1)) + DigitVal(s[Len(s)])

\* the digits ip before and fp after the point, with the sign
FloatOf(neg, ip, fp) ==
    IF ip = <<>> /\ fp = <<>> THEN NaN
    ELSE MkNum(IF neg THEN 0 - DigitsToInt(ip \o fp) ELSE DigitsToInt(ip \o fp), Len(fp))

\* r is what follows the integer digits
FractionOf(r) == IF r # <<>> /\ Head(r) = "." THEN TakeDigits(Tail(r)) ELSE <<>>

\* u is the text after the sign, ip its leading digits
UnsignedFloat(neg, u, ip) == FloatOf(neg, ip, FractionOf(SubSeq(u, Len(ip) + 1, Len(u))))

\* t is the text without its leading blanks
SignedFloat(t) ==
    IF t # <<>> /\ Head(t) \in {"-", "+"}
    THEN UnsignedFloat(Head(t) = "-", Tail(t), TakeDigits(Tail(t)))
    ELSE UnsignedFloat(FALSE, t, TakeDigits(t))

parseFloat(s) == SignedFloat(SkipBlanks(s))

\* String.prototype.trim on a character sequence
RECURSIVE TrimEnd(_)
TrimEnd(s) ==
    IF s # <<>> /\ s[Len(s)] = " " THEN TrimEnd(SubSeq(s, 1, Len(s) - 1)) ELSE s

Trim(s) == TrimEnd(SkipBlanks(s))

\* s.replace(/[set]/g, '') : every character of the set removed
RemoveAll(s, set) == SelectSeq(s, LAMBDA c : c \notin set)

(***************************************************************************)
(* Dates.  A date string is one token; new Date(token) either gives a      *)
(* calendar day or an invalid date.  The clock is an input of each call.   *)
(***************************************************************************)
IsoDates == {"2014-05-01", "2014-06-01"}
Clock == {[date |-> "2025-03-01", ms |-> "1740787200000"]}

\* new Date(s).toISOString().split('T')[0], or "Invalid Date"
JsDateIso(s) == IF s \in IsoDates THEN s ELSE "Invalid Date"

(***************************************************************************)
(* Schema validation (zod).                                                *)
(***************************************************************************)
ZString(v) == v.t = "string"
ZNumber(v) == v.t = "number"
ZOptString(v) == v.t = "undefined" \/ ZString(v)
ZOptNumber(v) == v.t = "undefined" \/ ZNumber(v)

\* process-invoice.ts lineItemSchema
execLineItemSchema(i) ==
    /\ ZString(i.description)
    /\ ZOptNumber(i.quantity)
    /\ ZOptNumber(i.unitPrice)
    /\ ZNumber(i.total)

\* process-invoice.ts invoiceDataSchema: the fields that fail validation
execSchemaErrors(d) ==
    {f \in {"customerName", "vendorName", "invoiceNumber", "invoiceDate"} :
        ~ZString(d[f])}
    \cup (IF ZOptString(d.dueDate) THEN {} ELSE {"dueDate"})
    \cup (IF ZNumber(d.amount) THEN {} ELSE {"amount"})
    \cup (IF \/ d.lineItems.t = "undefined"
             \/ /\ d.lineItems.t = "array"
                /\ \A k \in DOMAIN d.lineItems.a : execLineItemSchema(d.lineItems.a[k])
          THEN {} ELSE {"lineItems"})

(***************************************************************************)
(* cleanInvoiceData of processInvoice.execute.                             *)
(***************************************************************************)
execCleanAmount(a) ==
    IF a.t = "string"
    THEN Or(parseFloat(Trim(RemoveAll(a.c, {"$", ",", "GBP", "EUR"}))), Num(1))
    ELSE IF a = Num(0) \/ a.t \in {"null", "undefined"} THEN Num(1)
    ELSE a

execCleanInvoiceDate(v, now) ==
    IF ~Truthy(v) THEN v
    ELSE IF JsDateIso(v.s) # "Invalid Date" THEN Str(JsDateIso(v.s))
    ELSE Str(now.date)

execCleanDueDate(v) ==
    IF ~Truthy(v) THEN v
    ELSE IF JsDateIso(v.s) # "Invalid Date" THEN Str(JsDateIso(v.s))
    ELSE v

execCleanItem(i) ==
    [description |-> IF Truthy(i.description) THEN i.description
                     ELSE Str("Unspecified item"),
     quantity |-> IF IsNumberType(i.quantity) THEN i.quantity ELSE Num(1),
     unitPrice |-> IF IsNumberType(i.unitPrice) THEN i.unitPrice
                   ELSE IF Truthy(i.total) THEN i.total ELSE Num(0),
     total |-> IF IsNumberType(i.total) THEN i.total
               ELSE IF Truthy(i.unitPrice) THEN i.unitPrice ELSE Num(0)]

\* a default that synthesizes nothing
DefaultLineItems_none(amount) == Arr(<<>>)

DefaultLineItems(amount) ==
    Arr(<<[description |-> Str("Invoice total"), quantity |-> Num(1),
           unitPrice |-> amount, total |-> amount]>>)

IsEmptyOrMissing(li) == ~Truthy(li) \/ (li.t = "array" /\ Len(li.a) = 0)

execCleanLineItems(li, amount) ==
    IF li.t = "array" /\ Len(li.a) > 0
    THEN Arr([k \in DOMAIN li.a |-> execCleanItem(li.a[k])])
    ELSE IF IsEmptyOrMissing(li) THEN DefaultLineItems(amount)
    ELSE li

execCleanInvoiceData(data, now) ==
    LET amount == execCleanAmount(data.amount)
    IN  [data EXCEPT !.amount = amount,
                     !.invoiceDate = execCleanInvoiceDate(data.invoiceDate, now),
                     !.dueDate = execCleanDueDate(data.dueDate),
                     !.lineItems = execCleanLineItems(data.lineItems, amount)]

\* "Apply fallback values for missing fields"
execProcessedData(c, now) ==
    [customerName |-> Or(c.customerName, Str("Unknown Customer")),
     vendorName |-> Or(c.vendorName, Str("Unknown Vendor")),
     invoiceNumber |-> Or(c.invoiceNumber, Str("INV-" \o now.ms)),
     invoiceDate |-> Or(c.invoiceDate, Str(now.date)),
     dueDate |-> c.dueDate,
     amount |-> IF c.amount.t \notin {"undefined", "null"} THEN c.amount ELSE Num(0),
     lineItems |-> Or(c.lineItems, Arr(<<>>))]

(***************************************************************************)
(* Helpers and cleanInvoiceData of processInvoiceImplementation.           *)
(***************************************************************************)
\* s.replace(',', '.') : the first comma only
RECURSIVE ReplaceFirstComma(_)
ReplaceFirstComma(s) ==
    IF s = <<>> THEN <<>>
    ELSE IF Head(s) = "," THEN <<".">> \o Tail(s)
    ELSE <<Head(s)>> \o ReplaceFirstComma(Tail(s))

Includes(s, c) == \E k \in DOMAIN s : s[k] = c
\* s.lastIndexOf(c), 0-based, -1 when absent
LastIndexOf(s, c) ==
    IF Includes(s, c)
    THEN (CHOOSE k \in DOMAIN s : s[k] = c /\ \A j \in DOMAIN s : s[j] = c => j <= k) - 1
    ELSE 0 - 1

\* a parser that reads every comma as a thousands separator
parseInternationalAmount_us(a) ==
    IF IsNumberType(a) THEN a
    ELSE parseFloat(RemoveAll(a.c, {"$", "EUR", "GBP", "YEN", " ", ","}))

\* a parser that reads every period as a thousands separator
parseInternationalAmount_eu(a) ==
    IF IsNumberType(a) THEN a
    ELSE parseFloat(ReplaceFirstComma(RemoveAll(a.c, {"$", "EUR", "GBP", "YEN", " ", "."})))

parseInternationalAmount(a) ==
    IF IsNumberType(a) THEN a
    ELSE LET cleaned == RemoveAll(a.c, {"$", "EUR", "GBP", "YEN", " "})
         IN  IF Includes(cleaned, ",") /\ ~Includes(cleaned, ".")
             THEN parseFloat(ReplaceFirstComma(cleaned))
             ELSE IF Includes(cleaned, ",") /\ Includes(cleaned, ".")
             THEN IF LastIndexOf(cleaned, ",") > LastIndexOf(cleaned, ".")
                  THEN parseFloat(ReplaceFirstComma(RemoveAll(cleaned, {"."})))
                  ELSE parseFloat(RemoveAll(cleaned, {","}))
             ELSE parseFloat(cleaned)

\* String.prototype.trim on the address and contract-number tokens
TrimTok(s) == IF s = " Main St 1 " THEN "Main St 1" ELSE s

\* description.match(/(?:Dienst|Service):\s*([A-Z0-9_]+)/i)
ServiceIdOf(desc) ==
    IF desc = Str("Service: AB_1 setup") THEN Str("AB_1") ELSE Undef

\* the two endpoints of a dd.mm.yy-dd.mm.yy range through parseInternationalDate
extractServicePeriod(desc) ==
    IF desc = "Hosting 01.05.14-15.05.14"
    THEN [description |-> "Hosting",
          servicePeriod |-> [start |-> "2014-05-01", end |-> "2014-05-15"]]
    ELSE [description |-> desc, servicePeriod |-> Undef]

implCleanItem(i) ==
    LET esp == extractServicePeriod(IF Truthy(i.description) THEN i.description.s ELSE "")
    IN  [description |-> IF esp.description # "" THEN Str(esp.description)
                         ELSE Str("Unspecified item"),
         quantity |-> Or(i.quantity, Num(1)),
         unitPrice |-> parseInternationalAmount(Or(i.unitPrice, Num(0))),
         total |-> parseInternationalAmount(Or(i.total, Num(0))),
         serviceId |-> IF Truthy(i.description) THEN ServiceIdOf(i.description) ELSE Undef,
         servicePeriod |-> esp.servicePeriod]

implCleanAmount(a) ==
    IF a.t = "string" \/ IsNumberType(a) THEN parseInternationalAmount(a)
    ELSE Num(0)

implCleanLineItems(li, amount) ==
    IF li.t = "array" /\ Len(li.a) > 0
    THEN Arr([k \in DOMAIN li.a |-> implCleanItem(li.a[k])])
    ELSE IF IsEmptyOrMissing(li) THEN DefaultLineItems(amount)
    ELSE li

implCleanInvoiceData(data) ==
    LET amount == implCleanAmount(data.amount)
    IN  [data EXCEPT
           !.amount = amount,
           !.customerAddress = IF Truthy(@) THEN Str(TrimTok(@.s)) ELSE Str(""),
           !.vendorAddress = IF Truthy(@) THEN Str(TrimTok(@.s)) ELSE Str(""),
           !.lineItems = implCleanLineItems(data.lineItems, amount),
           !.contractNumber = IF Truthy(@) THEN Str(TrimTok(@.s)) ELSE @,
           !.currency = IF Truthy(@) THEN @ ELSE Str("EUR")]

\* part_001 lineItemSchema
implLineItemSchema(i) ==
    /\ ZString(i.description)
    /\ ZOptNumber(i.quantity)
    /\ ZOptNumber(i.unitPrice)
    /\ ZNumber(i.total)
    /\ ("serviceId" \in DOMAIN i => ZOptString(i.serviceId))

\* part_001 invoiceDataSchema: the fields that fail validation
implSchemaErrors(d) ==
    {f \in {"customerName", "customerAddress", "vendorName", "vendorAddress",
            "invoiceNumber", "invoiceDate"} : ~ZString(d[f])}
    \cup {f \in {"dueDate", "currency", "contractNumber"} : ~ZOptString(d[f])}
    \cup (IF ZNumber(d.amount) THEN {} ELSE {"amount"})
    \cup (IF \/ d.lineItems.t = "undefined"
             \/ /\ d.lineItems.t = "array"
                /\ \A k \in DOMAIN d.lineItems.a : implLineItemSchema(d.lineItems.a[k])
          THEN {} ELSE {"lineItems"})

(***************************************************************************)
(* Extraction-result parser (extractInvoiceData, extractPdfInvoiceData).   *)
(* The model's text is a sequence over                                     *)
(*   "F" a ``` fence, "j" the word json, "L" {, "R" }, "m" the members of  *)
(*   an object, "p" prose, " " white space.                                *)
(* JSON.parse accepts exactly { } and { m } with white space anywhere.     *)
(***************************************************************************)
TextAlphabet == {"F", "j", "L", "R", "m", "p", " "}
Thrown == [ok |-> FALSE, v |-> "SyntaxError"]
Parsed(v) == [ok |-> TRUE, v |-> v]

JSONparse(s) ==
    LET body == RemoveAll(s, {" "})
    IN  IF body = <<"L", "R">> THEN Parsed("empty")
        ELSE IF body = <<"L", "m", "R">> THEN Parsed("object")
        ELSE Thrown

\* positions of the fences
FencesOf(s) == {k \in DOMAIN s : s[k] = "F"}
Min(S) == CHOOSE x \in S : \A y \in S : x <= y
Max(S) == CHOOSE x \in S : \A y \in S : y <= x

\* responseText.match(/```(?:json)?\s*([\s\S]*?)\s*```/) || [null, responseText], group 1
FencedOrWhole(s) ==
    IF Cardinality(FencesOf(s)) < 2 THEN s
    ELSE LET a == Min(FencesOf(s))
             b == Min(FencesOf(s) \ {a})
             from == IF a + 1 < b /\ s[a + 1] = "j" THEN a + 2 ELSE a + 1
         IN  Trim(SubSeq(s, from, b - 1))

\* responseText.match(/(\{[\s\S]*\})/) || [null, '{}'], group 1
GreedyBraces(s) ==
    LET ls == {k \in DOMAIN s : s[k] = "L"}
        rs == {k \in DOMAIN s : s[k] = "R"}
    IN  IF ls # {} /\ \E k \in rs : k > Min(ls)
        THEN SubSeq(s, Min(ls), Max(rs))
        ELSE <<"L", "R">>

\* the nested try/catch chain of extractInvoiceData: the first parse that succeeds
FirstParsed(first, second, third) ==
    IF first.ok THEN first
    ELSE IF second.ok THEN second
    ELSE IF third.ok THEN third
    ELSE [ok |-> FALSE, v |-> "Failed to parse any valid JSON from AI response"]

extractJson(responseText) ==
    FirstParsed(JSONparse(Trim(FencedOrWhole(responseText))),
                JSONparse(Trim(responseText)),
                JSONparse(GreedyBraces(responseText)))

(***************************************************************************)
(* The store: tables Invoice and LineItem, and the uploads directory.      *)
(* invoice is the set of rows of Invoice; lineItem is the rows of LineItem *)
(* in insertion order (the uuid key of a line item is never read and is    *)
(* left out); uploads counts the files written; nextId is the next uuid.   *)
(* calls holds the handler invocations in flight, hist the summary of the  *)
(* most recently returned one, pure the input and output of a pure         *)
(* function under test.                                                    *)
(***************************************************************************)
VARIABLES invoice, lineItem, uploads, nextId, calls, hist, pure

vars == <<invoice, lineItem, uploads, nextId, calls, hist, pure>>
store == <<invoice, lineItem, uploads, nextId>>

Ids == 1 .. MaxIds

\* undefined bound to a column is NULL
Col(v) == IF v.t = "undefined" THEN Null ELSE v

\* an insert under a unique index on (invoiceNumber, vendorName), conflicts ignored
saveInvoice_unique(tbl, id, d, filePath, now) ==
    IF \E r \in tbl : r.invoiceNumber = d.invoiceNumber /\ r.vendorName = d.vendorName
    THEN tbl
    ELSE tbl \cup {[id |-> id,
                    customerName |-> d.customerName,
                    vendorName |-> d.vendorName,
                    invoiceNumber |-> d.invoiceNumber,
                    invoiceDate |-> d.invoiceDate,
                    dueDate |-> Col(d.dueDate),
                    amount |-> d.amount,
                    filePath |-> filePath,
                    createdAt |-> now.ms]}

\* db.insert(invoice).values({...})
saveInvoice(tbl, id, d, filePath, now) ==
    tbl \cup {[id |-> id,
               customerName |-> d.customerName,
               vendorName |-> d.vendorName,
               invoiceNumber |-> d.invoiceNumber,
               invoiceDate |-> d.invoiceDate,
               dueDate |-> Col(d.dueDate),
               amount |-> d.amount,
               filePath |-> filePath,
               createdAt |-> now.ms]}

\* one db.insert(lineItem).values({...}) of the loop of saveLineItems
insertLineItem(tbl, invoiceId, item) ==
    Append(tbl, [invoiceId |-> invoiceId,
                 description |-> item.description,
                 quantity |-> Col(item.quantity),
                 unitPrice |-> Col(item.unitPrice),
                 total |-> item.total])

\* the columns of Invoice that are NOT NULL among those updateInvoice sets
NotNullCols == {"customerName", "vendorName", "invoiceNumber", "invoiceDate", "amount"}
ScalarCols == NotNullCols \cup {"dueDate"}

\* db.update(invoice).set({...}).where(eq(invoice.id, id)): a key whose value is
\* undefined is left out of the SET clause, so that column keeps its value;
\* NULL into a NOT NULL column of a matched row fails the statement.
updateInvoiceFails(tbl, id, d) ==
    \/ \A c \in ScalarCols : d[c].t = "undefined"
    \/ /\ \E r \in tbl : r.id = id
       /\ \E c \in NotNullCols : d[c].t = "null"

updateInvoice(tbl, id, d) ==
    {IF r.id # id THEN r
     ELSE [c \in DOMAIN r |->
             IF c \in ScalarCols /\ d[c].t # "undefined" THEN d[c] ELSE r[c]]
     : r \in tbl}

\* a delete that removes nothing: the line items of an update would pile up
deleteLineItemsByInvoiceId_keep(tbl, invoiceId) == tbl

\* db.delete(lineItem).where(eq(lineItem.invoiceId, invoiceId))
deleteLineItemsByInvoiceId(tbl, invoiceId) ==
    SelectSeq(tbl, LAMBDA r : r.invoiceId # invoiceId)

\* the second statement of deleteInvoiceById
deleteInvoiceRow(tbl, id) == {r \in tbl : r.id # id}

\* letter case folded
Lower(s) ==
    CASE s = "INV-1" -> "inv-1"
      [] s = "Acme" -> "acme"
      [] OTHER -> s

\* a lookup that never finds a row
findDuplicateInvoice_blind(tbl, invoiceNumber, vendorName) == {}

\* a lookup that ignores letter case
findDuplicateInvoice_nocase(tbl, invoiceNumber, vendorName) ==
    {r \in tbl : /\ Lower(r.invoiceNumber.s) = Lower(invoiceNumber.s)
                 /\ Lower(r.vendorName.s) = Lower(vendorName.s)}

\* the rows .get() may return: the rows whose invoiceNumber and vendorName both
\* equal the arguments (text compared exactly, case-sensitively)
findDuplicateInvoice(tbl, invoiceNumber, vendorName) ==
    {r \in tbl : r.invoiceNumber = invoiceNumber /\ r.vendorName = vendorName}

LineItemsOf(tbl, id) == SelectSeq(tbl, LAMBDA r : r.invoiceId = id)

\* the line-item rows that saveLineItems writes for a validated item list
RowsOf(id, items) ==
    [k \in DOMAIN items |->
        [invoiceId |-> id,
         description |-> items[k].description,
         quantity |-> Col(items[k].quantity),
         unitPrice |-> Col(items[k].unitPrice),
         total |-> items[k].total]]

(***************************************************************************)
(* Inputs of the handlers.                                                 *)
(***************************************************************************)
\* business keys that differ from one another by letter case only
Keys == {<<"INV-1", "Acme">>, <<"inv-1", "Acme">>, <<"INV-1", "acme">>}

itemA == [description |-> Str("Hosting"), quantity |-> Num(1),
          unitPrice |-> Num(5), total |-> Num(5)]
itemB == [description |-> Str("Hosting 01.05.14-15.05.14"), quantity |-> Undef,
          unitPrice |-> Undef, total |-> Num(3)]
itemC == [description |-> Str("Setup"), quantity |-> Num(2),
          unitPrice |-> Num(2), total |-> Num(4)]

EmptyRaw ==
    [customerName |-> Undef, customerAddress |-> Undef, vendorName |-> Undef,
     vendorAddress |-> Undef, invoiceNumber |-> Undef, invoiceDate |-> Undef,
     dueDate |-> Undef, amount |-> Undef, currency |-> Undef,
     contractNumber |-> Undef, lineItems |-> Undef]

Profile1 ==
    [EmptyRaw EXCEPT !.customerName = Str("Bob"),
                     !.customerAddress = Str(" Main St 1 "),
                     !.vendorName = Str("Acme"),
                     !.invoiceNumber = Str("INV-1"),
                     !.invoiceDate = Str("2014-05-01"),
                     !.amount = Num(5),
                     !.lineItems = Arr(<<itemA>>)]
Profile2 ==
    [EmptyRaw EXCEPT !.customerName = Str("Eve"),
                     !.customerAddress = Str("Main St 1"),
                     !.vendorAddress = Str("Dock 9"),
                     !.vendorName = Str("Acme"),
                     !.invoiceNumber = Str("INV-1"),
                     !.invoiceDate = Str("2014-06-01"),
                     !.dueDate = Str("2014-06-01"),
                     !.amount = Num(7),
                     !.lineItems = Arr(<<itemB, itemC>>)]

WithKey(r, k) == [r EXCEPT !.invoiceNumber = Str(k[1]), !.vendorName = Str(k[2])]

\* Profile1 under every business key, and Profile2
KeyedRaws == {WithKey(Profile1, k) : k \in Keys} \cup {Profile2}

\* Profile1 with one field missing, null, zero or of the wrong type
DefectRaws ==
    {[Profile1 EXCEPT !.amount = a] :
        a \in {Undef, Null, Num(0), CStr(<<"0">>), CStr(<<"x">>)}}
    \cup {[Profile1 EXCEPT !.customerName = c] : c \in {Undef, Num(7)}}
    \cup {[Profile1 EXCEPT !.lineItems = l] : l \in {Undef, Arr(<<>>)}}
    \cup {[Profile1 EXCEPT !.invoiceNumber = Undef]}
    \cup {[Profile1 EXCEPT !.invoiceDate = Str("someday")]}

\* texts the extraction model may answer with
BareText == <<"L", "m", "R">>
SampleTexts ==
    {BareText,
     <<"F", "j", " ", "L", "m", "R", " ", "F">>,
     <<"p", " ", "L", "m", "R", "p">>,
     <<"F", "L", "p", "R", "F">>,
     <<"L", "p", "R">>,
     <<"p", "p">>}

\* what validateIsInvoice and the extraction call answer: yes and a text standing
\* for an object (its members given by raw), or no
Answers(raws) == {[isInvoice |-> TRUE, text |-> BareText, raw |-> r] : r \in raws}
OddAnswers ==
    {[isInvoice |-> TRUE, text |-> t, raw |-> Profile1] : t \in SampleTexts}
    \cup {[isInvoice |-> FALSE, text |-> BareText, raw |-> Profile1]}

PutBase ==
    [customerName |-> Str("Bob"), vendorName |-> Str("Acme"),
     invoiceNumber |-> Str("INV-1"), invoiceDate |-> Str("2014-05-01"),
     dueDate |-> Undef, amount |-> Num(5), lineItems |-> Undef]

PutBodies ==
    {WithKey(PutBase, k) : k \in Keys}
    \cup {[PutBase EXCEPT !.lineItems = l] : l \in {Arr(<<>>), Arr(<<itemC>>)}}
    \cup {[PutBase EXCEPT !.invoiceDate = Undef]}

(***************************************************************************)
(* Handler invocations.                                                    *)
(***************************************************************************)
Idle == [op |-> "idle"]
NoHist == [op |-> "none"]
NoPure == [fn |-> "none"]

Snapshot == [invoice |-> invoice, lineItem |-> lineItem, uploads |-> uploads]

NewCall(op, variant, in, update, now) ==
    [op |-> op, variant |-> variant, pc |-> "start", in |-> in, update |-> update,
     now |-> now, data |-> Undef, items |-> <<>>, filePath |-> Undef,
     existing |-> Undef, id |-> 0, k |-> 0, pre |-> Snapshot, result |-> Undef]

Result(outcome, success, error) ==
    [outcome |-> outcome, success |-> success, error |-> error,
     details |-> {}, id |-> 0, existingInvoice |-> Undef]

Done(c, result) == [c EXCEPT !.pc = "done", !.result = result]

Procs == DOMAIN calls
InFlight(op) == {q \in Procs : calls[q].op = op}
\* a fresh uuid is left for every call in flight that may insert an invoice
IdsLeft(tbl, d) ==
    \/ nextId + Cardinality(InFlight("process")) <= MaxIds
    \/ findDuplicateInvoice(tbl, d.invoiceNumber, d.vendorName) # {}
\* a fresh file name is left for every call in flight that may write a file
FilesLeft ==
    uploads + Cardinality({q \in InFlight("process") :
                              calls[q].variant = "exec" /\ calls[q].filePath = Undef})
        < MaxFiles

(***************************************************************************)
(* processInvoice: the part before the first store operation.              *)
(***************************************************************************)
\* execute, lines 86-95: schema validation of the candidate
execValidate(processed) ==
    IF execSchemaErrors(processed) # {}
    THEN [ok |-> FALSE,
          result |-> [Result("ValidationFailed", "absent",
                        "Failed to extract valid invoice data. Please check the document and try again.")
                      EXCEPT !.details = execSchemaErrors(processed)]]
    ELSE [ok |-> TRUE, data |-> processed]

\* execute, lines 59-84: ex is what the JSON recovery made of the model's text
execNormalize(ex, raw, now) ==
    IF ~ex.ok
    THEN [ok |-> FALSE,
          result |-> Result("ExtractionFailed", "absent",
                       "Failed to extract invoice data. The document may not be in a readable format.")]
    ELSE execValidate(execProcessedData(
             execCleanInvoiceData(IF ex.v = "object" THEN raw ELSE EmptyRaw, now), now))

\* processInvoice.execute up to schema validation
execPrelude(resp, now) ==
    IF ~resp.isInvoice
    THEN [ok |-> FALSE,
          result |-> Result("NotAnInvoice", "absent",
                       "The uploaded document does not appear to be an invoice.")]
    ELSE execNormalize(extractJson(resp.text), resp.raw, now)

\* part_001, lines 239-252: schema validation of the candidate
implValidate(cleaned) ==
    IF implSchemaErrors(cleaned) # {}
    THEN [ok |-> FALSE,
          result |-> [Result("ValidationFailed", "false",
                        "Failed to validate invoice data. Please check the data and try again.")
                      EXCEPT !.details = implSchemaErrors(cleaned)]]
    ELSE [ok |-> TRUE, data |-> cleaned]

\* processInvoiceImplementation up to schema validation
implPrelude(raw) == implValidate(implCleanInvoiceData(raw))

\* failure results carry success: false in part_001 and no success key in execute
FailFlag(c) == IF c.variant = "impl" THEN "false" ELSE "absent"

\* an execute that writes the uploaded file before it validates
BeginExec_saveFirst(p, answers) ==
    /\ calls[p].op = "idle"
    /\ FilesLeft
    /\ \E resp \in answers, update \in BOOLEAN, now \in Clock :
         \E pre \in {execPrelude(resp, now)},
            c \in {[NewCall("process", "exec", resp, update, now)
                    EXCEPT !.filePath = [t |-> "upload", n |-> uploads + 1]]} :
             /\ pre.ok => IdsLeft(invoice, pre.data)
             /\ calls' = [calls EXCEPT ![p] =
                    IF pre.ok
                    THEN [c EXCEPT !.pc = "findDuplicate", !.data = pre.data,
                                   !.items = pre.data.lineItems.a]
                    ELSE Done(c, pre.result)]
    /\ uploads' = uploads + 1
    /\ UNCHANGED <<invoice, lineItem, nextId, hist, pure>>

BeginExec(p, answers) ==
    /\ calls[p].op = "idle"
    /\ FilesLeft
    /\ \E resp \in answers, update \in BOOLEAN, now \in Clock :
         \E pre \in {execPrelude(resp, now)},
            c \in {NewCall("process", "exec", resp, update, now)} :
             /\ pre.ok => IdsLeft(invoice, pre.data)
             /\ calls' = [calls EXCEPT ![p] =
                    IF pre.ok
                    THEN [c EXCEPT !.pc = "saveFile", !.data = pre.data,
                                   !.items = pre.data.lineItems.a]
                    ELSE Done(c, pre.result)]
    /\ UNCHANGED <<store, hist, pure>>

BeginImpl(p, raws) ==
    /\ calls[p].op = "idle"
    /\ \E raw \in raws, update \in BOOLEAN, now \in Clock :
         \E pre \in {implPrelude(raw)},
            c \in {NewCall("process", "impl",
                           [isInvoice |-> TRUE, text |-> <<>>, raw |-> raw],
                           update, now)} :
             /\ pre.ok => IdsLeft(invoice, pre.data)
             /\ calls' = [calls EXCEPT ![p] =
                    IF pre.ok
                    THEN [c EXCEPT !.pc = "findDuplicate", !.data = pre.data,
                                   !.items = pre.data.lineItems.a,
                                   !.filePath = Str("invoice.pdf")]
                    ELSE Done(c, pre.result)]
    /\ UNCHANGED <<store, hist, pure>>

\* saveFileFromBase64: a new file under /uploads
SaveFile(p) ==
    /\ calls[p].op = "process"
    /\ calls[p].pc = "saveFile"
    /\ uploads' = uploads + 1
    /\ calls' = [calls EXCEPT ![p].pc = "findDuplicate",
                              ![p].filePath = [t |-> "upload", n |-> uploads + 1]]
    /\ UNCHANGED <<invoice, lineItem, nextId, hist, pure>>

(***************************************************************************)
(* processInvoice: reconciliation, one action per awaited store operation. *)
(***************************************************************************)
\* a reconciliation that overwrites on every match, whatever updateIfExists is
FindDuplicate_overwrite(p) ==
    LET c == calls[p]
        found == findDuplicateInvoice(invoice, c.data.invoiceNumber, c.data.vendorName)
    IN  /\ c.op = "process"
        /\ c.pc = "findDuplicate"
        /\ \E e \in (IF found = {} THEN {Undef} ELSE found) :
             calls' = [calls EXCEPT ![p] =
                 IF e = Undef THEN [c EXCEPT !.pc = "saveInvoice"]
                 ELSE [c EXCEPT !.pc = "updateInvoice", !.existing = e, !.id = e.id]]
        /\ UNCHANGED <<store, hist, pure>>

FindDuplicate(p) ==
    LET c == calls[p]
        found == findDuplicateInvoice(invoice, c.data.invoiceNumber, c.data.vendorName)
    IN  /\ c.op = "process"
        /\ c.pc = "findDuplicate"
        /\ \E e \in (IF found = {} THEN {Undef} ELSE found) :
             calls' = [calls EXCEPT ![p] =
                 IF e = Undef THEN [c EXCEPT !.pc = "saveInvoice"]
                 ELSE IF c.update THEN [c EXCEPT !.pc = "updateInvoice", !.existing = e,
                                                 !.id = e.id]
                 ELSE Done([c EXCEPT !.existing = e],
                           [Result("RejectedDuplicate", FailFlag(c), "Duplicate invoice")
                            EXCEPT !.existingInvoice = e])]
        /\ UNCHANGED <<store, hist, pure>>

\* the result once the line items are written
Saved(c) ==
    [Result(IF c.existing = Undef THEN "Created" ELSE "Updated", "true", "")
     EXCEPT !.id = c.id]

\* a store operation threw: the inner catch of part_001, the outer one of execute
StoreFailure(c) ==
    IF c.variant = "impl"
    THEN Result("PersistenceFailed", "false", "Failed to save invoice data")
    ELSE Result("PersistenceFailed", "absent", "Failed to process invoice")

AfterScalars(c) ==
    IF Len(c.items) > 0 THEN [c EXCEPT !.pc = "saveLineItems", !.k = 0]
    ELSE Done(c, Saved(c))

UpdateInvoice(p) ==
    LET c == calls[p]
    IN  /\ c.op = "process"
        /\ c.pc = "updateInvoice"
        /\ IF updateInvoiceFails(invoice, c.id, c.data)
           THEN /\ calls' = [calls EXCEPT ![p] = Done(c, StoreFailure(c))]
                /\ UNCHANGED invoice
           ELSE /\ invoice' = updateInvoice(invoice, c.id, c.data)
                /\ calls' = [calls EXCEPT ![p].pc = "deleteLineItems"]
        /\ UNCHANGED <<lineItem, uploads, nextId, hist, pure>>

DeleteLineItems(p) ==
    LET c == calls[p]
    IN  /\ c.op = "process"
        /\ c.pc = "deleteLineItems"
        /\ lineItem' = deleteLineItemsByInvoiceId(lineItem, c.id)
        /\ calls' = [calls EXCEPT ![p] = AfterScalars(c)]
        /\ UNCHANGED <<invoice, uploads, nextId, hist, pure>>

SaveInvoice(p) ==
    LET c == calls[p]
    IN  /\ c.op = "process"
        /\ c.pc = "saveInvoice"
        /\ invoice' = saveInvoice(invoice, nextId, c.data, c.filePath, c.now)
        /\ nextId' = nextId + 1
        /\ calls' = [calls EXCEPT ![p] = AfterScalars([c EXCEPT !.id = nextId])]
        /\ UNCHANGED <<lineItem, uploads, hist, pure>>

\* one iteration of the loop of saveLineItems
SaveLineItem(p) ==
    LET c == calls[p]
    IN  /\ c.op \in {"process", "put"}
        /\ c.pc = "saveLineItems"
        /\ lineItem' = insertLineItem(lineItem, c.id, c.items[c.k + 1])
        /\ calls' = [calls EXCEPT ![p] =
               IF c.k + 1 = Len(c.items)
               THEN Done([c EXCEPT !.k = c.k + 1],
                         IF c.op = "put" THEN Result("200", "true", "") ELSE Saved(c))
               ELSE [c EXCEPT !.k = c.k + 1]]
        /\ UNCHANGED <<invoice, uploads, nextId, hist, pure>>

(***************************************************************************)
(* PUT and DELETE /api/invoices/[id].                                      *)
(***************************************************************************)
formatDateForStorage(v) ==
    IF ~Truthy(v) THEN Null
    ELSE IF v.s \in IsoDates THEN Str(v.s \o "T00:00:00.000Z")
    ELSE v

BeginPut(p, bodies) ==
    /\ calls[p].op = "idle"
    /\ \E authed \in BOOLEAN, id \in Ids, body \in bodies, now \in Clock :
         LET c == NewCall("put", "rest", [id |-> id, body |-> body], FALSE, now)
         IN  calls' = [calls EXCEPT ![p] =
                 IF ~authed THEN Done(c, Result("401", "absent", "Unauthorized"))
                 ELSE [c EXCEPT
                         !.pc = "putUpdate", !.id = id,
                         !.data = [body EXCEPT
                                     !.invoiceDate = formatDateForStorage(body.invoiceDate),
                                     !.dueDate = formatDateForStorage(body.dueDate)],
                         !.items = IF body.lineItems.t = "array" THEN body.lineItems.a
                                   ELSE <<>>]]
    /\ UNCHANGED <<store, hist, pure>>

PutUpdate(p) ==
    LET c == calls[p]
    IN  /\ c.op = "put"
        /\ c.pc = "putUpdate"
        /\ IF updateInvoiceFails(invoice, c.id, c.data)
           THEN /\ calls' = [calls EXCEPT ![p] =
                       Done(c, Result("500", "absent", "Failed to update invoice"))]
                /\ UNCHANGED invoice
           ELSE /\ invoice' = updateInvoice(invoice, c.id, c.data)
                /\ calls' = [calls EXCEPT ![p] =
                       IF c.data.lineItems.t = "array"
                       THEN [c EXCEPT !.pc = "putDeleteLineItems"]
                       ELSE Done(c, Result("200", "true", ""))]
        /\ UNCHANGED <<lineItem, uploads, nextId, hist, pure>>

\* a PUT that clears the whole line-item table before writing its own
PutDeleteLineItems_all(p) ==
    LET c == calls[p]
    IN  /\ c.op = "put"
        /\ c.pc = "putDeleteLineItems"
        /\ lineItem' = <<>>
        /\ calls' = [calls EXCEPT ![p] =
               IF Len(c.items) > 0 THEN [c EXCEPT !.pc = "saveLineItems", !.k = 0]
               ELSE Done(c, Result("200", "true", ""))]
        /\ UNCHANGED <<invoice, uploads, nextId, hist, pure>>

PutDeleteLineItems(p) ==
    LET c == calls[p]
    IN  /\ c.op = "put"
        /\ c.pc = "putDeleteLineItems"
        /\ lineItem' = deleteLineItemsByInvoiceId(lineItem, c.id)
        /\ calls' = [calls EXCEPT ![p] =
               IF Len(c.items) > 0 THEN [c EXCEPT !.pc = "saveLineItems", !.k = 0]
               ELSE Done(c, Result("200", "true", ""))]
        /\ UNCHANGED <<invoice, uploads, nextId, hist, pure>>

BeginDelete(p) ==
    /\ calls[p].op = "idle"
    /\ \E authed \in BOOLEAN, id \in Ids, now \in Clock :
         LET c == NewCall("delete", "rest", [id |-> id], FALSE, now)
         IN  calls' = [calls EXCEPT ![p] =
                 IF ~authed THEN Done(c, Result("401", "absent", "Unauthorized"))
                 ELSE [c EXCEPT !.pc = "deleteLineItems", !.id = id]]
    /\ UNCHANGED <<store, hist, pure>>

\* a deleteInvoiceById that removes the parent row where the line items should go
DeleteInvoiceLineItems_rowFirst(p) ==
    LET c == calls[p]
    IN  /\ c.op = "delete"
        /\ c.pc = "deleteLineItems"
        /\ invoice' = deleteInvoiceRow(invoice, c.id)
        /\ calls' = [calls EXCEPT ![p].pc = "deleteInvoice"]
        /\ UNCHANGED <<lineItem, uploads, nextId, hist, pure>>

\* deleteInvoiceById, first statement
DeleteInvoiceLineItems(p) ==
    LET c == calls[p]
    IN  /\ c.op = "delete"
        /\ c.pc = "deleteLineItems"
        /\ lineItem' = deleteLineItemsByInvoiceId(lineItem, c.id)
        /\ calls' = [calls EXCEPT ![p].pc = "deleteInvoice"]
        /\ UNCHANGED <<invoice, uploads, nextId, hist, pure>>

\* deleteInvoiceById, second statement
DeleteInvoiceRow(p) ==
    LET c == calls[p]
    IN  /\ c.op = "delete"
        /\ c.pc = "deleteInvoice"
        /\ invoice' = deleteInvoiceRow(invoice, c.id)
        /\ calls' = [calls EXCEPT ![p] = Done(c, Result("200", "true", ""))]
        /\ UNCHANGED <<lineItem, uploads, nextId, hist, pure>>

(***************************************************************************)
(* The handler returns.  hist remembers the call that returned last when   *)
(* it was a processInvoice submission with updateIfExists = false that     *)
(* found no invoice with its key and created one.                          *)
(***************************************************************************)
KeyOf(d) == <<d.invoiceNumber, d.vendorName>>
Matches(tbl, d) == findDuplicateInvoice(tbl, d.invoiceNumber, d.vendorName)

Summary(c) ==
    IF /\ c.op = "process"
       /\ c.data # Undef
       /\ ~c.update
       /\ c.result.outcome = "Created"
       /\ Matches(c.pre.invoice, c.data) = {}
    THEN [op |-> "created", key |-> KeyOf(c.data)]
    ELSE NoHist

Return(p) ==
    /\ calls[p].op # "idle"
    /\ calls[p].pc = "done"
    /\ hist' = Summary(calls[p])
    /\ calls' = [calls EXCEPT ![p] = Idle]
    /\ UNCHANGED <<store, pure>>

(***************************************************************************)
(* Spec: processInvoice submissions, one at a time, of the keyed           *)
(* candidates through both variants.                                       *)
(***************************************************************************)
Init ==
    /\ invoice = {}
    /\ lineItem = <<>>
    /\ uploads = 0
    /\ nextId = 1
    /\ calls = [p \in {1} |-> Idle]
    /\ hist = NoHist
    /\ pure = NoPure

Next ==
    \/ \E p \in Procs : BeginExec(p, Answers(KeyedRaws))
    \/ \E p \in Procs : BeginImpl(p, KeyedRaws)
    \/ \E p \in Procs : SaveFile(p)
    \/ \E p \in Procs : FindDuplicate(p)
    \/ \E p \in Procs : UpdateInvoice(p)
    \/ \E p \in Procs : DeleteLineItems(p)
    \/ \E p \in Procs : SaveInvoice(p)
    \/ \E p \in Procs : SaveLineItem(p)
    \/ \E p \in Procs : Return(p)

Spec == Init /\ [][Next]_vars

(***************************************************************************)
(* SpecRest: processInvoiceImplementation calls, PUT and DELETE requests,   *)
(* one at a time.                                                          *)
(***************************************************************************)
RestRaws == {WithKey(Profile1, k) : k \in Keys}

NextRest ==
    \/ \E p \in Procs : BeginImpl(p, RestRaws)
    \/ \E p \in Procs : FindDuplicate(p)
    \/ \E p \in Procs : UpdateInvoice(p)
    \/ \E p \in Procs : DeleteLineItems(p)
    \/ \E p \in Procs : SaveInvoice(p)
    \/ \E p \in Procs : SaveLineItem(p)
    \/ \E p \in Procs : Return(p)
    \/ \E p \in Procs : BeginPut(p, PutBodies)
    \/ \E p \in Procs : PutUpdate(p)
    \/ \E p \in Procs : PutDeleteLineItems(p)
    \/ \E p \in Procs : BeginDelete(p)
    \/ \E p \in Procs : DeleteInvoiceLineItems(p)
    \/ \E p \in Procs : DeleteInvoiceRow(p)

SpecRest == Init /\ [][NextRest]_vars

(***************************************************************************)
(* Properties of reconciliation, one submission at a time (Spec).          *)
(***************************************************************************)
\* the stored invoices holding the business key of candidate d
Holders(tbl, d) ==
    {r \in tbl : r.invoiceNumber = d.invoiceNumber /\ r.vendorName = d.vendorName}

IdsOf(tbl) == {r.id : r \in tbl}

\* call c is a processInvoice submission that passed validation and has finished
Reconciled(c) == c.op = "process" /\ c.pc = "done" /\ c.data # Undef

\* C1: from a store with no invoice for a business key, two submissions in a row
\* of a valid candidate with that key, both with updateIfExists = false, end
\* Created (success, an identifier not in use before) and then RejectedDuplicate
\* with error "Duplicate invoice", and exactly one invoice holds the key after
\* each of them.
C1_CreatedThenRejected ==
    \A p \in Procs :
        LET c == calls[p]
        IN  (Reconciled(c) /\ ~c.update) =>
              /\ Holders(c.pre.invoice, c.data) = {} =>
                   /\ c.result.outcome = "Created"
                   /\ c.result.success = "true"
                   /\ c.result.id \notin IdsOf(c.pre.invoice)
                   /\ Cardinality(Holders(invoice, c.data)) = 1
              /\ (hist.op = "created" /\ hist.key = KeyOf(c.data)) =>
                   /\ c.result.outcome = "RejectedDuplicate"
                   /\ c.result.error = "Duplicate invoice"
                   /\ Cardinality(Holders(invoice, c.data)) = 1

\* the second of two such submissions has been rejected
C1_Witness ==
    \E p \in Procs :
        /\ Reconciled(calls[p])
        /\ ~calls[p].update
        /\ hist.op = "created"
        /\ hist.key = KeyOf(calls[p].data)
        /\ calls[p].result.outcome = "RejectedDuplicate"

\* C2: a submission with updateIfExists = true that matches a stored invoice
\* ends Updated, and the line items then stored for that invoice are exactly
\* the submitted ones, in order: none of the earlier ones is left.
C2_LineItemsReplaced ==
    \A p \in Procs :
        LET c == calls[p]
        IN  (Reconciled(c) /\ c.update /\ Holders(c.pre.invoice, c.data) # {}) =>
              /\ c.result.outcome = "Updated"
              /\ c.result.id \in IdsOf(Holders(c.pre.invoice, c.data))
              /\ LineItemsOf(lineItem, c.result.id) = RowsOf(c.result.id, c.items)

\* an update has finished on an invoice that had other line items before
C2_Witness ==
    \E p \in Procs :
        LET c == calls[p]
        IN  /\ Reconciled(c)
            /\ c.result.outcome = "Updated"
            /\ LineItemsOf(c.pre.lineItem, c.result.id) # <<>>
            /\ LineItemsOf(c.pre.lineItem, c.result.id) # RowsOf(c.result.id, c.items)
            /\ Len(c.items) > 1

\* C3: a submission with updateIfExists = false that matches a stored invoice
\* ends RejectedDuplicate, leaves the invoice table and the line-item table as
\* they were, and its result carries the stored record as existingInvoice.
C3_RejectLeavesStore ==
    \A p \in Procs :
        LET c == calls[p]
        IN  (Reconciled(c) /\ ~c.update /\ Holders(c.pre.invoice, c.data) # {}) =>
              /\ c.result.outcome = "RejectedDuplicate"
              /\ invoice = c.pre.invoice
              /\ lineItem = c.pre.lineItem
              /\ c.result.existingInvoice \in Holders(c.pre.invoice, c.data)

\* a rejection of a candidate whose fields differ from the stored record's
C3_Witness ==
    \E p \in Procs :
        LET c == calls[p]
        IN  /\ Reconciled(c)
            /\ c.result.outcome = "RejectedDuplicate"
            /\ c.result.existingInvoice \in invoice
            /\ c.result.existingInvoice.amount # c.data.amount
            /\ LineItemsOf(lineItem, c.result.existingInvoice.id) # <<>>

\* C4: an Updated outcome keeps and returns the identifier of the matched
\* invoice, leaves the number of invoices as it was, and leaves customerName,
\* vendorName, invoiceNumber, invoiceDate, dueDate and amount of that record
\* equal to the candidate's (an absent dueDate being NULL).
C4_UpdatedInPlace ==
    \A p \in Procs :
        LET c == calls[p]
        IN  (Reconciled(c) /\ c.result.outcome = "Updated") =>
              /\ c.result.id = c.existing.id
              /\ c.existing \in c.pre.invoice
              /\ Cardinality(invoice) = Cardinality(c.pre.invoice)
              /\ \E r \in invoice :
                   /\ r.id = c.result.id
                   /\ \A f \in ScalarCols : r[f] = Col(c.data[f])

\* C7: a candidate whose business key differs from that of every stored invoice,
\* be it by letter case only, is not reported as a duplicate: it is inserted as
\* a new invoice and ends Created, whatever updateIfExists is; and a record a
\* call does match holds exactly the candidate's invoiceNumber and vendorName.
C7_ExactKeyMatch ==
    \A p \in Procs :
        LET c == calls[p]
        IN  Reconciled(c) =>
              /\ Holders(c.pre.invoice, c.data) = {} =>
                   /\ c.result.outcome = "Created"
                   /\ c.existing = Undef
                   /\ c.result.existingInvoice = Undef
                   /\ invoice \ c.pre.invoice \in SUBSET Holders(invoice, c.data)
                   /\ Cardinality(invoice) = Cardinality(c.pre.invoice) + 1
              /\ c.existing # Undef =>
                   /\ c.existing.invoiceNumber = c.data.invoiceNumber
                   /\ c.existing.vendorName = c.data.vendorName

\* with updateIfExists = true, a candidate was created next to a stored invoice
\* whose key differs from the candidate's by letter case only
C7_Witness ==
    \E p \in Procs :
        LET c == calls[p]
        IN  /\ Reconciled(c)
            /\ c.update
            /\ c.result.outcome = "Created"
            /\ \E r \in c.pre.invoice :
                 /\ Lower(r.invoiceNumber.s) = Lower(c.data.invoiceNumber.s)
                 /\ Lower(r.vendorName.s) = Lower(c.data.vendorName.s)

(***************************************************************************)
(* SpecRest: uniqueness of the business key.                               *)
(***************************************************************************)
\* C5: no two stored invoices have the same (invoiceNumber, vendorName) pair,
\* after any sequence of processInvoice submissions, PUT edits and DELETEs that
\* run one at a time.
C5_BusinessKeyUnique ==
    (\A p \in Procs : calls[p].op = "idle") =>
        \A r1, r2 \in invoice :
            (r1.invoiceNumber = r2.invoiceNumber /\ r1.vendorName = r2.vendorName)
                => r1.id = r2.id

(***************************************************************************)
(* SpecNorm: processInvoice submissions, one at a time, of candidates with *)
(* defects and of answers the parser has to recover.                       *)
(***************************************************************************)
NormRaws == {Profile1} \cup DefectRaws

NextNorm ==
    \/ \E p \in Procs : BeginExec(p, Answers(NormRaws) \cup OddAnswers)
    \/ \E p \in Procs : BeginImpl(p, NormRaws)
    \/ \E p \in Procs : SaveFile(p)
    \/ \E p \in Procs : FindDuplicate(p)
    \/ \E p \in Procs : UpdateInvoice(p)
    \/ \E p \in Procs : DeleteLineItems(p)
    \/ \E p \in Procs : SaveInvoice(p)
    \/ \E p \in Procs : SaveLineItem(p)
    \/ \E p \in Procs : Return(p)

SpecNorm == Init /\ [][NextNorm]_vars

\* the schema errors of the normalized candidate of call c; none when the call
\* ends before normalization
CandidateErrors(c) ==
    IF c.variant = "impl" THEN implSchemaErrors(implCleanInvoiceData(c.in.raw))
    ELSE IF ~c.in.isInvoice \/ ~extractJson(c.in.text).ok THEN {}
    ELSE LET extracted == IF extractJson(c.in.text).v = "object" THEN c.in.raw
                          ELSE EmptyRaw
         IN  execSchemaErrors(execProcessedData(execCleanInvoiceData(extracted, c.now),
                                                c.now))

\* C8: when the normalized candidate fails schema validation, processInvoice
\* returns a failure result (an error and no success) that carries the failing
\* fields, and the invoice table, the line-item table and the stored files are
\* as they were before the call.
C8_ValidationFailureStoresNothing ==
    \A p \in Procs :
        LET c == calls[p]
        IN  /\ (c.op = "process" /\ c.pc # "done") => CandidateErrors(c) = {}
            /\ (c.op = "process" /\ c.pc = "done" /\ CandidateErrors(c) # {}) =>
                 /\ c.result.outcome = "ValidationFailed"
                 /\ c.result.success # "true"
                 /\ c.result.error # ""
                 /\ c.result.details = CandidateErrors(c)
                 /\ Snapshot = c.pre
            /\ (c.op = "process" /\ c.pc = "done"
                  /\ c.result.outcome = "ValidationFailed") =>
                 /\ c.result.details # {}
                 /\ Snapshot = c.pre

\* execute has failed validation on customerName, on a store that holds an invoice
C8_Witness ==
    \E p \in Procs :
        LET c == calls[p]
        IN  /\ c.op = "process"
            /\ c.pc = "done"
            /\ c.variant = "exec"
            /\ c.result.outcome = "ValidationFailed"
            /\ "customerName" \in c.result.details
            /\ invoice # {}
            /\ lineItem # <<>>

\* C10: an invoice created or updated through processInvoice from a raw
\* extraction whose amount is 0, null or absent is not stored with amount 0.
C10_NoZeroAmountStored ==
    \A p \in Procs :
        LET c == calls[p]
        IN  (Reconciled(c) /\ c.result.outcome \in {"Created", "Updated"}
               /\ c.in.raw.amount \in {Num(0), Null, Undef}) =>
              \A r \in invoice : r.id = c.result.id => r.amount # Num(0)

(***************************************************************************)
(* SpecConc: two processInvoiceImplementation calls for one business key   *)
(* whose awaited store operations interleave.                              *)
(***************************************************************************)
ConcRaws == {Profile1}

InitConc ==
    /\ invoice = {}
    /\ lineItem = <<>>
    /\ uploads = 0
    /\ nextId = 1
    /\ calls = [p \in {1, 2} |-> Idle]
    /\ hist = NoHist
    /\ pure = NoPure

NextConc ==
    \/ \E p \in Procs : BeginImpl(p, ConcRaws)
    \/ \E p \in Procs : FindDuplicate(p)
    \/ \E p \in Procs : UpdateInvoice(p)
    \/ \E p \in Procs : DeleteLineItems(p)
    \/ \E p \in Procs : SaveInvoice(p)
    \/ \E p \in Procs : SaveLineItem(p)
    \/ \E p \in Procs : Return(p)

SpecConc == InitConc /\ [][NextConc]_vars

\* calls p and q are two finished submissions of one business key that both
\* found no stored invoice with it
BothObservedNone(p, q) ==
    /\ p # q
    /\ Reconciled(calls[p])
    /\ Reconciled(calls[q])
    /\ KeyOf(calls[p].data) = KeyOf(calls[q].data)
    /\ calls[p].existing = Undef
    /\ calls[q].existing = Undef

\* C6: nothing isolates the duplicate check from the insert that follows it: two
\* interleaved calls for one business key that both observed no existing record
\* both end Created, under different identifiers, and the store then holds two
\* invoices with that key.
C6_CheckThenInsertNotIsolated ==
    \A p, q \in Procs :
        BothObservedNone(p, q) =>
            /\ calls[p].result.outcome = "Created"
            /\ calls[q].result.outcome = "Created"
            /\ calls[p].result.id # calls[q].result.id
            /\ {calls[p].result.id, calls[q].result.id}
                   \subseteq IdsOf(Holders(invoice, calls[p].data))

\* both calls observed none, both returned Created, two invoices hold the key
C6_Witness ==
    \E p, q \in Procs :
        /\ BothObservedNone(p, q)
        /\ calls[p].result.outcome = "Created"
        /\ calls[q].result.outcome = "Created"
        /\ Cardinality(Holders(invoice, calls[p].data)) = 2

(***************************************************************************)
(* SpecParse: the extraction-result parser on every text of up to          *)
(* MaxTextLen symbols.                                                     *)
(***************************************************************************)
Texts == UNION {[1 .. n -> TextAlphabet] : n \in 0 .. MaxTextLen}

InitParse ==
    /\ invoice = {}
    /\ lineItem = <<>>
    /\ uploads = 0
    /\ nextId = 1
    /\ calls = [p \in {1} |-> Idle]
    /\ hist = NoHist
    /\ pure \in {[fn |-> "extractJson", text |-> t, called |-> FALSE, out |-> Thrown] :
                   t \in Texts}

\* the JSON recovery of extractInvoiceData runs on the text
ExtractJson ==
    /\ pure.fn = "extractJson"
    /\ ~pure.called
    /\ pure' = [pure EXCEPT !.called = TRUE, !.out = extractJson(pure.text)]
    /\ UNCHANGED <<store, calls, hist>>

NextParse == ExtractJson

SpecParse == InitParse /\ [][NextParse]_vars

\* the text holds a { with a } somewhere after it
HasBraces(s) == \E i, j \in DOMAIN s : i < j /\ s[i] = "L" /\ s[j] = "R"

\* C9: the parser returns the first successful parse among the fenced block, the
\* whole trimmed text and the first greedy {...} substring, and it throws,
\* returning no silent empty object, exactly when none of the three parses, in
\* particular on a text without any {...} substring.
C9_ThrowsWithoutBraces ==
    (pure.fn = "extractJson" /\ pure.called) =>
        /\ ~HasBraces(pure.text) => ~pure.out.ok
        /\ pure.out.ok =>
             \/ pure.out = JSONparse(Trim(FencedOrWhole(pure.text)))
             \/ pure.out = JSONparse(Trim(pure.text))
             \/ /\ HasBraces(pure.text)
                /\ pure.out = JSONparse(GreedyBraces(pure.text))

(***************************************************************************)
(* SpecClean: cleanInvoiceData of either variant applied to a raw          *)
(* extraction, and then once more to its own output.                       *)
(***************************************************************************)
\* a line item whose description names a service
itemS == [description |-> Str("Service: AB_1 setup"), quantity |-> Num(0),
          unitPrice |-> CStr(<<"1", ",", "5">>), total |-> Num(3)]

CleanRaws ==
    {[Profile1 EXCEPT !.amount = a, !.lineItems = l, !.invoiceDate = d, !.dueDate = u] :
        a \in {Undef, Null, Num(0), Num(5), CStr(<<"0">>), CStr(<<"$", "7">>),
               CStr(<<"x">>)},
        l \in {Undef, Null, Arr(<<>>), Arr(<<itemA>>), Arr(<<itemB, itemC>>),
               Arr(<<itemS>>)},
        d \in {Undef, Str("2014-05-01"), Str("someday")},
        u \in {Undef, Str("2014-06-01"), Str("someday")}}

InitClean ==
    /\ invoice = {}
    /\ lineItem = <<>>
    /\ uploads = 0
    /\ nextId = 1
    /\ calls = [p \in {1} |-> Idle]
    /\ hist = NoHist
    /\ pure \in {[fn |-> "cleanInvoiceData", variant |-> "none", raw |-> r, n |-> 0,
                  now |-> now, prev |-> r, out |-> r] : r \in CleanRaws, now \in Clock}

\* cleanInvoiceData of process-invoice.ts on the raw extraction
CleanExec ==
    /\ pure.fn = "cleanInvoiceData"
    /\ pure.n = 0
    /\ pure' = [pure EXCEPT !.variant = "exec", !.n = 1,
                            !.out = execCleanInvoiceData(pure.raw, pure.now)]
    /\ UNCHANGED <<store, calls, hist>>

\* cleanInvoiceData of part_001 on the raw extraction
CleanImpl ==
    /\ pure.fn = "cleanInvoiceData"
    /\ pure.n = 0
    /\ pure' = [pure EXCEPT !.variant = "impl", !.n = 1,
                            !.out = implCleanInvoiceData(pure.raw)]
    /\ UNCHANGED <<store, calls, hist>>

\* the same cleanInvoiceData on what it returned
CleanAgain ==
    /\ pure.fn = "cleanInvoiceData"
    /\ pure.n = 1
    /\ pure' = [pure EXCEPT !.n = 2, !.prev = pure.out,
                            !.out = IF pure.variant = "exec"
                                    THEN execCleanInvoiceData(pure.out, pure.now)
                                    ELSE implCleanInvoiceData(pure.out)]
    /\ UNCHANGED <<store, calls, hist>>

NextClean == CleanExec \/ CleanImpl \/ CleanAgain

SpecClean == InitClean /\ [][NextClean]_vars

\* the raw extraction of the cleaning under way has no line item
NoRawLineItems == pure.raw.lineItems \in {Undef, Arr(<<>>)}

\* C11: a raw extraction whose lineItems is absent or an empty list is normalized
\* to exactly one line item, with description "Invoice total", quantity 1, and
\* unitPrice and total equal to the normalized invoice amount.
C11_DefaultLineItem ==
    (pure.fn = "cleanInvoiceData" /\ pure.n = 1 /\ NoRawLineItems) =>
        pure.out.lineItems =
            Arr(<<[description |-> Str("Invoice total"), quantity |-> Num(1),
                   unitPrice |-> pure.out.amount, total |-> pure.out.amount]>>)

\* an empty list was replaced next to an amount that the sentinel replaced
C11_Witness ==
    /\ pure.fn = "cleanInvoiceData"
    /\ pure.n = 1
    /\ pure.variant = "exec"
    /\ pure.raw.lineItems = Arr(<<>>)
    /\ pure.raw.amount = Num(0)
    /\ pure.out.amount = Num(1)
    /\ Len(pure.out.lineItems.a) = 1

(***************************************************************************)
(* The shape of the result of processInvoice.                              *)
(***************************************************************************)
\* C12: every finished processInvoice call holds one structured result: it
\* carries success = true and the invoice on Created and Updated, and
\* success = false with a non-empty error on every failure (not an invoice,
\* extraction failure, validation failure, duplicate, persistence failure).
C12_StructuredResult ==
    \A p \in Procs :
        (calls[p].op = "process" /\ calls[p].pc = "done") =>
            \/ /\ calls[p].result.outcome \in {"Created", "Updated"}
               /\ calls[p].result.success = "true"
               /\ calls[p].result.id \in IdsOf(invoice)
            \/ /\ calls[p].result.outcome \in
                      {"NotAnInvoice", "ExtractionFailed", "ValidationFailed",
                       "RejectedDuplicate", "PersistenceFailed"}
               /\ calls[p].result.success = "false"
               /\ calls[p].result.error # ""

\* a property of an object, undefined when the object has no such key
Field(r, f) == IF f \in DOMAIN r THEN r[f] ELSE Undef

\* two objects agree on every key one of them defines
SameObject(a, b) == \A f \in DOMAIN a \cup DOMAIN b : Field(a, f) = Field(b, f)

\* two invoices agree field for field, line items compared one by one
SameInvoice(a, b) ==
    /\ \A f \in (DOMAIN a \cup DOMAIN b) \ {"lineItems"} : Field(a, f) = Field(b, f)
    /\ IF a.lineItems.t = "array" /\ b.lineItems.t = "array"
       THEN /\ Len(a.lineItems.a) = Len(b.lineItems.a)
            /\ \A k \in DOMAIN a.lineItems.a :
                   SameObject(a.lineItems.a[k], b.lineItems.a[k])
       ELSE a.lineItems = b.lineItems

\* C13: cleanInvoiceData applied to a normalized invoice returns it field for
\* field: cleanInvoiceData(cleanInvoiceData(x)) = cleanInvoiceData(x) for every
\* raw extraction x, line items with serviceId and servicePeriod included.
C13_Idempotent ==
    (pure.fn = "cleanInvoiceData" /\ pure.n = 2) => SameInvoice(pure.out, pure.prev)

(***************************************************************************)
(* Deletion of an invoice (checked under SpecRest).                        *)
(***************************************************************************)
\* the tables of a snapshot without the invoice id and without its line items
WithoutInvoice(snap, id) ==
    [invoice |-> {r \in snap.invoice : r.id # id},
     lineItem |-> SelectSeq(snap.lineItem, LAMBDA r : r.invoiceId # id)]

\* C14: a delete removes the line items first and the parent record second:
\* between the two statements the line items of id are gone and the invoice
\* table is untouched, and after a completed delete of id neither an invoice
\* with that id nor a line item with that invoiceId remains while every other
\* invoice and line item is as it was when the delete began.
C14_DeleteOrderAndFrame ==
    \A p \in Procs :
        /\ (calls[p].op = "delete" /\ calls[p].pc = "deleteInvoice") =>
              /\ invoice = calls[p].pre.invoice
              /\ lineItem = WithoutInvoice(calls[p].pre, calls[p].id).lineItem
        /\ (calls[p].op = "delete" /\ calls[p].pc = "done"
                /\ calls[p].result.outcome = "200") =>
              /\ \A r \in invoice : r.id # calls[p].id
              /\ \A k \in DOMAIN lineItem : lineItem[k].invoiceId # calls[p].id
              /\ invoice = WithoutInvoice(calls[p].pre, calls[p].id).invoice
              /\ lineItem = WithoutInvoice(calls[p].pre, calls[p].id).lineItem

\* a completed delete of an invoice that had line items, next to another invoice
\* that stays
C14_Witness ==
    \E p \in Procs :
        /\ calls[p].op = "delete"
        /\ calls[p].pc = "done"
        /\ calls[p].result.outcome = "200"
        /\ \E r \in calls[p].pre.invoice : r.id = calls[p].id
        /\ \E k \in DOMAIN calls[p].pre.lineItem :
               calls[p].pre.lineItem[k].invoiceId = calls[p].id
        /\ invoice # {}
        /\ lineItem # <<>>

(***************************************************************************)
(* SpecSigned: submissions through both variants and PUT edits, one at a   *)
(* time, whose amounts are of either sign.                                 *)
(***************************************************************************)
SignedRaws ==
    {[Profile1 EXCEPT !.amount = a] :
        a \in {Num(5), Num(0 - 5), CStr(<<"-", "5">>), CStr(<<"7">>)}}

SignedBodies == {[PutBase EXCEPT !.amount = a] : a \in {Num(7), Num(0 - 5)}}

NextSigned ==
    \/ \E p \in Procs : BeginExec(p, Answers(SignedRaws))
    \/ \E p \in Procs : BeginImpl(p, SignedRaws)
    \/ \E p \in Procs : SaveFile(p)
    \/ \E p \in Procs : FindDuplicate(p)
    \/ \E p \in Procs : UpdateInvoice(p)
    \/ \E p \in Procs : DeleteLineItems(p)
    \/ \E p \in Procs : SaveInvoice(p)
    \/ \E p \in Procs : SaveLineItem(p)
    \/ \E p \in Procs : BeginPut(p, SignedBodies)
    \/ \E p \in Procs : PutUpdate(p)
    \/ \E p \in Procs : Return(p)

SpecSigned == Init /\ [][NextSigned]_vars

\* C15: in every reachable store state each stored invoice's amount is a
\* non-negative number, whatever submissions and PUT edits produced it.
C15_AmountNonNegative ==
    \A r \in invoice : r.amount.t = "number" /\ r.amount.m >= 0

(***************************************************************************)
(* SpecAmount: parseInternationalAmount applied to one amount, a number or *)
(* a text of at most MaxAmountLen characters ("$" stands for any of the    *)
(* currency symbols, "x" for any other character).                         *)
(***************************************************************************)
AmountTexts ==
    UNION {[1 .. n -> {"1", "2", ",", ".", " ", "$", "x"}] : n \in 0 .. MaxAmountLen}
    \cup {<<"1", ".", "2", "3", "4", ",", "5", "6">>,
          <<"1", ",", "2", "3", "4", ".", "5", "6">>,
          <<"1", "2", "3", "4", ",", "5", "6">>}

AmountInputs ==
    {CStr(s) : s \in AmountTexts} \cup {Num(0), Num(5), Num(0 - 5), MkNum(123456, 2), NaN}

InitAmount ==
    /\ invoice = {}
    /\ lineItem = <<>>
    /\ uploads = 0
    /\ nextId = 1
    /\ calls = [p \in {1} |-> Idle]
    /\ hist = NoHist
    /\ pure \in {[fn |-> "parseInternationalAmount", in |-> a, n |-> 0, out |-> Undef] :
                    a \in AmountInputs}

ParseAmount ==
    /\ pure.fn = "parseInternationalAmount"
    /\ pure.n = 0
    /\ pure' = [pure EXCEPT !.n = 1, !.out = parseInternationalAmount(pure.in)]
    /\ UNCHANGED <<store, calls, hist>>

SpecAmount == InitAmount /\ [][ParseAmount]_vars

\* the digits of a text, in order
DigitsOf(s) == SelectSeq(s, LAMBDA c : c \in Digits)
Count(s, c) == Cardinality({k \in DOMAIN s : s[k] = c})
\* the place of the last comma or period of a text
LastSeparator(s) ==
    CHOOSE k \in DOMAIN s :
        s[k] \in {",", "."} /\ \A j \in DOMAIN s : s[j] \in {",", "."} => j <= k
\* the number whose decimal separator is the character at place k of s
DecimalAt(s, k) ==
    MkNum(DigitsToInt(DigitsOf(SubSeq(s, 1, k - 1)) \o DigitsOf(SubSeq(s, k + 1, Len(s)))),
          Len(DigitsOf(SubSeq(s, k + 1, Len(s)))))
\* the amount parsed was a text
ParsedText == pure.fn = "parseInternationalAmount" /\ pure.n = 1 /\ pure.in.t = "string"

\* a numeric text with both separators: digits, commas and periods only, the
\* separator that occurs last occurring once
BothSeparators(s) ==
    /\ \A k \in DOMAIN s : s[k] \in Digits \cup {",", "."}
    /\ DigitsOf(s) # <<>>
    /\ Count(s, ",") > 0
    /\ Count(s, ".") > 0
    /\ Count(s, s[LastSeparator(s)]) = 1

\* C16: for a numeric text with both a comma and a period the separator that
\* occurs later is the decimal separator and every occurrence of the other one
\* is dropped as a thousands separator ("1.234,56" and "1,234.56" give 1234.56).
C16_LaterSeparatorIsDecimal ==
    (ParsedText /\ BothSeparators(pure.in.c)) =>
        pure.out = DecimalAt(pure.in.c, LastSeparator(pure.in.c))

C16_Witness ==
    /\ ParsedText
    /\ pure.in.c = <<"1", ".", "2", "3", "4", ",", "5", "6">>
    /\ pure.out = MkNum(123456, 2)

\* a numeric text with one comma and no period, currency symbols and blanks
\* allowed around and between the digits
SingleComma(s) ==
    /\ \A k \in DOMAIN s : s[k] \in Digits \cup {",", " ", "$"}
    /\ DigitsOf(s) # <<>>
    /\ Count(s, ",") = 1

\* C17: for a numeric text with a single comma and no period, with or without
\* a currency symbol and whitespace, the comma is the decimal separator
\* ("1234,56" gives 1234.56).
C17_SingleCommaIsDecimal ==
    (ParsedText /\ SingleComma(pure.in.c)) =>
        pure.out = DecimalAt(pure.in.c, LastSeparator(pure.in.c))

C17_Witness ==
    /\ ParsedText
    /\ pure.in.c = <<"$", " ", "1", ",", "2">>
    /\ pure.out = MkNum(12, 1)

\* C18: parseInternationalAmount returns a numeric argument unchanged, returns
\* a number for every text, and returns 0, never not-a-number, for a text that
\* holds no number once currency symbols and separators are stripped.
C18_NeverNotANumber ==
    (pure.fn = "parseInternationalAmount" /\ pure.n = 1) =>
        /\ pure.in.t = "number" => pure.out = pure.in
        /\ pure.in.t = "string" => pure.out.t = "number"
        /\ (pure.in.t = "string" /\ DigitsOf(pure.in.c) = <<>>) => pure.out = Num(0)

(***************************************************************************)
(* parseInternationalDate, character by character.                         *)
(***************************************************************************)
LowerAlpha == <<"a", "b", "c", "d", "e", "f", "g", "h", "i", "j", "k", "l", "m", "n", "o", "p", "q", "r", "s", "t", "u", "v", "w", "x", "y", "z", "ä">>
UpperAlpha == <<"A", "B", "C", "D", "E", "F", "G", "H", "I", "J", "K", "L", "M", "N", "O", "P", "Q", "R", "S", "T", "U", "V", "W", "X", "Y", "Z", "Ä">>

\* dateStr.toLowerCase()
toLowerCase(s) ==
    [k \in DOMAIN s |->
        IF \E j \in DOMAIN UpperAlpha : UpperAlpha[j] = s[k]
        THEN LowerAlpha[CHOOSE j \in DOMAIN UpperAlpha : UpperAlpha[j] = s[k]]
        ELSE s[k]]

\* the months table: name and number
months ==
    {[name |-> <<"j", "a", "n", "u", "a", "r">>, num |-> 1],
     [name |-> <<"j", "a", "n", "u", "a", "r", "y">>, num |-> 1],
     [name |-> <<"j", "a", "n">>, num |-> 1],
     [name |-> <<"f", "e", "b", "r", "u", "a", "r">>, num |-> 2],
     [name |-> <<"f", "e", "b", "r", "u", "a", "r", "y">>, num |-> 2],
     [name |-> <<"f", "e", "b">>, num |-> 2],
     [name |-> <<"m", "ä", "r", "z">>, num |-> 3],
     [name |-> <<"m", "a", "r", "c", "h">>, num |-> 3],
     [name |-> <<"m", "a", "r">>, num |-> 3],
     [name |-> <<"a", "p", "r", "i", "l">>, num |-> 4],
     [name |-> <<"a", "p", "r">>, num |-> 4],
     [name |-> <<"m", "a", "i">>, num |-> 5],
     [name |-> <<"m", "a", "y">>, num |-> 5],
     [name |-> <<"j", "u", "n", "i">>, num |-> 6],
     [name |-> <<"j", "u", "n", "e">>, num |-> 6],
     [name |-> <<"j", "u", "n">>, num |-> 6],
     [name |-> <<"j", "u", "l", "i">>, num |-> 7],
     [name |-> <<"j", "u", "l", "y">>, num |-> 7],
     [name |-> <<"j", "u", "l">>, num |-> 7],
     [name |-> <<"a", "u", "g", "u", "s", "t">>, num |-> 8],
     [name |-> <<"a", "u", "g">>, num |-> 8],
     [name |-> <<"s", "e", "p", "t", "e", "m", "b", "e", "r">>, num |-> 9],
     [name |-> <<"s", "e", "p">>, num |-> 9],
     [name |-> <<"o", "k", "t", "o", "b", "e", "r">>, num |-> 10],
     [name |-> <<"o", "c", "t", "o", "b", "e", "r">>, num |-> 10],
     [name |-> <<"o", "c", "t">>, num |-> 10],
     [name |-> <<"n", "o", "v", "e", "m", "b", "e", "r">>, num |-> 11],
     [name |-> <<"n", "o", "v">>, num |-> 11],
     [name |-> <<"d", "e", "z", "e", "m", "b", "e", "r">>, num |-> 12],
     [name |-> <<"d", "e", "c", "e", "m", "b", "e", "r">>, num |-> 12],
     [name |-> <<"d", "e", "c">>, num |-> 12]}

\* months[name], 0 for a name the table does not hold
MonthNum(name) ==
    IF \E m \in months : m.name = name
    THEN (CHOOSE m \in months : m.name = name).num
    ELSE 0

DigitChar(n) == CHOOSE c \in Digits : DigitVal(c) = n

\* String(n) for a natural number
RECURSIVE IntToDigits(_)
IntToDigits(n) ==
    IF n < 10 THEN <<DigitChar(n)>>
    ELSE IntToDigits(n \div 10) \o <<DigitChar(n % 10)>>

\* a padStart that pads nothing
Pad2_none(s) == s

\* s.padStart(2, '0')
Pad2(s) == IF Len(s) < 2 THEN <<"0">> \o s ELSE s

\* the leading characters of s that [a-zä] matches under the i flag
RECURSIVE TakeLetters(_)
TakeLetters(s) ==
    IF s # <<>> /\ \E j \in DOMAIN LowerAlpha : Head(s) \in {LowerAlpha[j], UpperAlpha[j]}
    THEN <<Head(s)>> \o TakeLetters(Tail(s))
    ELSE <<>>

NoMatch == [ok |-> FALSE]

\* /(\d+)\.\s*([a-zä]+)\s*(\d{4})/i tried at place i of the text: the digits
\* there, a period, blanks, the letters that follow, blanks, four digits
GermanAt(s, i) ==
    LET t == SubSeq(s, i, Len(s))
        day == TakeDigits(t)
        r == SkipBlanks(SubSeq(t, Len(day) + 2, Len(t)))
        name == TakeLetters(r)
        y == SkipBlanks(SubSeq(r, Len(name) + 1, Len(r)))
    IN  IF /\ day # <<>>
           /\ Len(t) > Len(day)
           /\ t[Len(day) + 1] = "."
           /\ name # <<>>
           /\ Len(TakeDigits(y)) >= 4
        THEN [ok |-> TRUE, day |-> day, month |-> name, year |-> SubSeq(y, 1, 4)]
        ELSE NoMatch

\* dateStr.match(germanFormat): the leftmost match
germanFormat(s) ==
    IF \E i \in DOMAIN s : GermanAt(s, i).ok
    THEN GermanAt(s, Min({i \in DOMAIN s : GermanAt(s, i).ok}))
    ELSE NoMatch

\* /(\d{2})\.(\d{2})\.(\d{2})/ tried at place i of the text
PeriodAt(s, i) ==
    /\ i + 7 <= Len(s)
    /\ \A k \in {0, 1, 3, 4, 6, 7} : s[i + k] \in Digits
    /\ s[i + 2] = "."
    /\ s[i + 5] = "."

\* dateStr.match(periodFormat): the leftmost match
periodFormat(s) ==
    IF \E i \in DOMAIN s : PeriodAt(s, i)
    THEN [ok |-> TRUE, at |-> Min({i \in DOMAIN s : PeriodAt(s, i)})]
    ELSE NoMatch

\* the day the clock shows, as toISOString().split('T')[0] writes it
Today == <<"2", "0", "2", "5", "-", "0", "3", "-", "0", "1">>

\* new Date(s) and, when that is invalid, the current date: a yyyy-mm-dd text is
\* that day; what any other text yields is left to the engine, an invalid date
\* (and so the current date) or some day of its own reading
DateFallback(s) ==
    IF /\ Len(s) = 10
       /\ \A k \in {1, 2, 3, 4, 6, 7, 9, 10} : s[k] \in Digits
       /\ s[5] = "-"
       /\ s[8] = "-"
    THEN {s}
    ELSE {Today, <<"2", "0", "0", "1", "-", "0", "1", "-", "0", "1">>}

\* the period branch: p is the match, s the text
PeriodResult(s, p) ==
    (IF DigitsToInt(SubSeq(s, p.at + 6, p.at + 7)) < 50 THEN <<"2", "0">> ELSE <<"1", "9">>)
        \o SubSeq(s, p.at + 6, p.at + 7) \o <<"-">> \o SubSeq(s, p.at + 3, p.at + 4)
        \o <<"-">> \o SubSeq(s, p.at, p.at + 1)

\* the strings parseInternationalDate may return for dateStr
parseInternationalDate(dateStr) ==
    LET s == Trim(toLowerCase(dateStr))
        g == germanFormat(s)
        p == periodFormat(s)
    IN  IF g.ok /\ MonthNum(toLowerCase(g.month)) # 0
        THEN {g.year \o <<"-">> \o Pad2(IntToDigits(MonthNum(toLowerCase(g.month))))
                  \o <<"-">> \o Pad2(IntToDigits(DigitsToInt(g.day)))}
        ELSE IF p.ok THEN {PeriodResult(s, p)}
        ELSE DateFallback(s)

(***************************************************************************)
(* SpecDate: parseInternationalDate applied to one text.                   *)
(***************************************************************************)
toUpperChar(c) ==
    IF \E k \in DOMAIN LowerAlpha : LowerAlpha[k] = c
    THEN UpperAlpha[CHOOSE k \in DOMAIN LowerAlpha : LowerAlpha[k] = c]
    ELSE c

\* a month name as written, in lower case, capitalized or in upper case
Styled(name, style) ==
    CASE style = "lower" -> name
      [] style = "capital" -> <<toUpperChar(Head(name))>> \o Tail(name)
      [] style = "upper" -> [k \in DOMAIN name |-> toUpperChar(name[k])]

\* "<day>. <month-name> <year>"
GermanCases ==
    [day : {[text |-> <<"7">>, padded |-> <<"0", "7">>], [text |-> <<"0", "7">>, padded |-> <<"0", "7">>],
            [text |-> <<"1", "7">>, padded |-> <<"1", "7">>]},
     gap : {<<" ">>, <<>>},
     month : months,
     style : {"lower", "capital", "upper"},
     year : {<<"2", "0", "1", "4">>, <<"1", "9", "6", "7">>}]
GermanText(c) ==
    c.day.text \o <<".">> \o c.gap \o Styled(c.month.name, c.style) \o <<" ">> \o c.year

\* "dd.mm.yy"
PeriodCases ==
    [dd : {<<"0", "1">>, <<"1", "5">>, <<"3", "1">>}, mm : {<<"0", "5">>, <<"1", "2">>},
     yy : {<<"0", "0">>, <<"1", "4">>, <<"4", "9">>, <<"5", "0">>, <<"6", "7">>, <<"9", "9">>}]
PeriodText(c) == c.dd \o <<".">> \o c.mm \o <<".">> \o c.yy

\* "dd.mm.yyyy"
LongYearCases ==
    [dd : {<<"0", "1">>, <<"1", "5">>}, mm : {<<"0", "5">>, <<"1", "2">>}, yyyy : {<<"2", "0", "1", "4">>, <<"1", "9", "6", "7">>, <<"2", "0", "2", "0">>}]
LongYearText(c) == c.dd \o <<".">> \o c.mm \o <<".">> \o c.yyyy

\* a text that holds both a dd.mm.yy date and a date with a month name
BothPatterns == <<"0", "1", ".", "0", "5", ".", "1", "4", " ", "7", ".", " ", "M", "a", "i", " ", "2", "0", "1", "4">>

OtherTexts ==
    {<<>>, <<"2", "0", "1", "4", "-", "0", "5", "-", "0", "1">>, <<"s", "o", "m", "e", "d", "a", "y">>, <<" ", "0", "1", ".", "0", "5", ".", "1", "4", " ">>, <<"7", ".", " ", "F", "o", "o", " ", "2", "0", "1", "4">>, <<"H", "o", "s", "t", "i", "n", "g", " ", "0", "1", ".", "0", "5", ".", "1", "4", "-", "1", "5", ".", "0", "5", ".", "1", "4">>,
     <<"1", "2", "3", ".", " ", "M", "a", "i", " ", "2", "0", "1", "4">>, BothPatterns}

DateTexts ==
    {GermanText(c) : c \in GermanCases} \cup {PeriodText(c) : c \in PeriodCases}
    \cup {LongYearText(c) : c \in LongYearCases} \cup OtherTexts

InitDate ==
    /\ invoice = {}
    /\ lineItem = <<>>
    /\ uploads = 0
    /\ nextId = 1
    /\ calls = [p \in {1} |-> Idle]
    /\ hist = NoHist
    /\ pure \in {[fn |-> "parseInternationalDate", in |-> s, n |-> 0, out |-> <<>>] :
                    s \in DateTexts}

ParseDate ==
    /\ pure.fn = "parseInternationalDate"
    /\ pure.n = 0
    /\ \E d \in parseInternationalDate(pure.in) :
           pure' = [pure EXCEPT !.n = 1, !.out = d]
    /\ UNCHANGED <<store, calls, hist>>

SpecDate == InitDate /\ [][ParseDate]_vars

\* the date parsed was the text s
ParsedDate(s) == pure.fn = "parseInternationalDate" /\ pure.n = 1 /\ pure.in = s

\* a two-digit year expanded with the pivot at 50
Expanded(yy) ==
    (IF DigitsToInt(yy) < 50 THEN <<"2", "0">> ELSE <<"1", "9">>) \o yy

\* C19: a dd.mm.yy date is expanded with the pivot at 50, day and month kept
\* ("01.05.14" gives "2014-05-01", "01.05.67" gives "1967-05-01"), and the pivot
\* rule applies only to dates whose year has two digits: a dd.mm.yyyy date is
\* not given the year that the pivot makes of its first two year digits.
C19_PivotOnTwoDigitYears ==
    /\ \A c \in PeriodCases :
           ParsedDate(PeriodText(c)) =>
               pure.out = Expanded(c.yy) \o <<"-">> \o c.mm \o <<"-">> \o c.dd
    /\ \A c \in LongYearCases :
           (ParsedDate(LongYearText(c)) /\ Expanded(SubSeq(c.yyyy, 1, 2)) # c.yyyy) =>
               SubSeq(pure.out, 1, 4) # Expanded(SubSeq(c.yyyy, 1, 2))

\* the month number in two digits
TwoDigits(n) == <<DigitChar(n \div 10), DigitChar(n % 10)>>

\* C20: a text "<day>. <month-name> <year>" whose month name, in any letter
\* case, is in the German/English table gives year-month-day with the table's
\* month number and the day zero-padded ("7. Mai 2014" gives "2014-05-07"), and
\* this pattern wins over dd.mm.yy in a text that holds both.
C20_MonthNameDates ==
    /\ \A c \in GermanCases :
           ParsedDate(GermanText(c)) =>
               pure.out = c.year \o <<"-">> \o TwoDigits(c.month.num) \o <<"-">>
                              \o c.day.padded
    /\ ParsedDate(BothPatterns) => pure.out = <<"2", "0", "1", "4", "-", "0", "5", "-", "0", "7">>

C20_Witness ==
    /\ ParsedDate(<<"7", ".", " ", "M", "a", "i", " ", "2", "0", "1", "4">>)
    /\ pure.out = <<"2", "0", "1", "4", "-", "0", "5", "-", "0", "7">>

\* a text of the form YYYY-MM-DD
IsoForm(s) ==
    /\ Len(s) = 10
    /\ \A k \in {1, 2, 3, 4, 6, 7, 9, 10} : s[k] \in Digits
    /\ s[5] = "-"
    /\ s[8] = "-"

\* C21: parseInternationalDate returns, for every text, a string of the form
\* YYYY-MM-DD.
C21_AlwaysIsoDate ==
    (pure.fn = "parseInternationalDate" /\ pure.n = 1) => IsoForm(pure.out)

(***************************************************************************)
(* SpecPeriod: extractServicePeriod applied to one description, character  *)
(* by character.                                                           *)
(***************************************************************************)
\* a refiner that leaves the range in the description
extractServicePeriodText_keep(desc) ==
    LET at == {i \in DOMAIN desc :
                  /\ PeriodAt(desc, i)
                  /\ i + 8 <= Len(desc)
                  /\ desc[i + 8] = "-"
                  /\ PeriodAt(desc, i + 9)}
    IN  IF at # {}
        THEN {[description |-> desc, servicePeriod |-> [start |-> a, end |-> b]] :
                 a \in parseInternationalDate(SubSeq(desc, Min(at), Min(at) + 7)),
                 b \in parseInternationalDate(SubSeq(desc, Min(at) + 9, Min(at) + 16))}
        ELSE {[description |-> desc, servicePeriod |-> Undef]}

\* extractServicePeriod: the leftmost /(\d{2}\.\d{2}\.\d{2})-(\d{2}\.\d{2}\.\d{2})/,
\* the results it may return
extractServicePeriodText(desc) ==
    LET at == {i \in DOMAIN desc :
                  /\ PeriodAt(desc, i)
                  /\ i + 8 <= Len(desc)
                  /\ desc[i + 8] = "-"
                  /\ PeriodAt(desc, i + 9)}
    IN  IF at # {}
        THEN {[description |-> Trim(SubSeq(desc, 1, Min(at) - 1)
                                      \o SubSeq(desc, Min(at) + 17, Len(desc))),
               servicePeriod |-> [start |-> a, end |-> b]] :
                 a \in parseInternationalDate(SubSeq(desc, Min(at), Min(at) + 7)),
                 b \in parseInternationalDate(SubSeq(desc, Min(at) + 9, Min(at) + 16))}
        ELSE {[description |-> desc, servicePeriod |-> Undef]}

\* a description built around a range: the text before it, the two dates, the
\* text after it
RangeCases ==
    [before : {<<>>, <<"H", "o", "s", "t", "i", "n", "g", " ">>, <<" ", "x", " ">>},
     from : [dd : {<<"0", "1">>, <<"1", "5">>}, mm : {<<"0", "5">>}, yy : {<<"1", "4">>, <<"6", "7">>}],
     to : [dd : {<<"0", "1">>, <<"1", "5">>}, mm : {<<"0", "5">>}, yy : {<<"1", "4">>, <<"6", "7">>}],
     after : {<<>>, <<" ", "m", "o", "n", "t", "h", "l", "y">>, <<" ">>}]
RangeText(c) ==
    c.before \o PeriodText(c.from) \o <<"-">> \o PeriodText(c.to) \o c.after

\* descriptions that hold no dd.mm.yy-dd.mm.yy range
PlainDescriptions ==
    {<<>>, <<"H", "o", "s", "t", "i", "n", "g">>, <<" ", "S", "e", "t", "u", "p", " ">>, <<"0", "1", ".", "0", "5", ".", "1", "4">>, <<"0", "1", ".", "0", "5", ".", "2", "0", "1", "4", "-", "1", "5", ".", "0", "5", ".", "2", "0", "1", "4">>, <<"H", "o", "s", "t", "i", "n", "g", " ", "0", "1", ".", "0", "5", ".", "1", "4", " ", "-", " ", "1", "5", ".", "0", "5", ".", "1", "4">>}

InitPeriod ==
    /\ invoice = {}
    /\ lineItem = <<>>
    /\ uploads = 0
    /\ nextId = 1
    /\ calls = [p \in {1} |-> Idle]
    /\ hist = NoHist
    /\ pure \in {[fn |-> "extractServicePeriod", in |-> s, n |-> 0, out |-> Undef] :
                    s \in {RangeText(c) : c \in RangeCases} \cup PlainDescriptions}

ExtractServicePeriod ==
    /\ pure.fn = "extractServicePeriod"
    /\ pure.n = 0
    /\ \E r \in extractServicePeriodText(pure.in) :
           pure' = [pure EXCEPT !.n = 1, !.out = r]
    /\ UNCHANGED <<store, calls, hist>>

SpecPeriod == InitPeriod /\ [][ExtractServicePeriod]_vars

\* the refiner has run on the description s
Refined(s) == pure.fn = "extractServicePeriod" /\ pure.n = 1 /\ pure.in = s

\* C22: a description that holds a range dd.mm.yy-dd.mm.yy comes back with the
\* range text removed and the rest trimmed, and with a service period whose
\* start and end are the two endpoints as parseInternationalDate reads them; a
\* description with no such range comes back unchanged, with no service period.
C22_ServicePeriodRefined ==
    /\ \A c \in RangeCases :
           Refined(RangeText(c)) =>
               /\ pure.out.description = Trim(c.before \o c.after)
               /\ pure.out.servicePeriod # Undef
               /\ pure.out.servicePeriod.start =
                      Expanded(c.from.yy) \o <<"-">> \o c.from.mm \o <<"-">> \o c.from.dd
               /\ pure.out.servicePeriod.start \in parseInternationalDate(PeriodText(c.from))
               /\ pure.out.servicePeriod.end =
                      Expanded(c.to.yy) \o <<"-">> \o c.to.mm \o <<"-">> \o c.to.dd
               /\ pure.out.servicePeriod.end \in parseInternationalDate(PeriodText(c.to))
    /\ \A s \in PlainDescriptions :
           Refined(s) => pure.out = [description |-> s, servicePeriod |-> Undef]

C22_Witness ==
    /\ Refined(<<"H", "o", "s", "t", "i", "n", "g", " ", "0", "1", ".", "0", "5", ".", "1", "4", "-", "1", "5", ".", "0", "5", ".", "1", "4">>)
    /\ pure.out.description = <<"H", "o", "s", "t", "i", "n", "g">>
    /\ pure.out.servicePeriod = [start |-> <<"2", "0", "1", "4", "-", "0", "5", "-", "0", "1">>, end |-> <<"2", "0", "1", "4", "-", "0", "5", "-", "1", "5">>]

(***************************************************************************)
(* Identity placeholders (checked under SpecNorm).                         *)
(***************************************************************************)
\* the raw extraction that the normalization of call c worked on
RawOf(c) ==
    IF c.variant = "exec" /\ extractJson(c.in.text).ok /\ extractJson(c.in.text).v # "object"
    THEN EmptyRaw
    ELSE c.in.raw

\* C23: when customerName, vendorName or invoiceNumber is missing from the raw
\* extraction, schema validation does not fail on that field, and an invoice
\* that the call stores carries the placeholder in its place.
C23_IdentityPlaceholders ==
    \A p \in Procs :
        LET c == calls[p]
        IN  (c.op = "process" /\ c.pc = "done"
                /\ c.result.outcome \notin {"NotAnInvoice", "ExtractionFailed"}) =>
               \A f \in {"customerName", "vendorName", "invoiceNumber"} :
                   RawOf(c)[f] = Undef =>
                       /\ f \notin c.result.details
                       /\ c.data # Undef =>
                              c.data[f] = CASE f = "customerName" -> Str("Unknown Customer")
                                            [] f = "vendorName" -> Str("Unknown Vendor")
                                            [] OTHER -> Str("INV-" \o c.now.ms)

(***************************************************************************)
(* Unparseable model output (checked under SpecNorm).                      *)
(***************************************************************************)
\* no part of the text is a JSON object
NoJsonObjectIn(s) ==
    \A i, j \in DOMAIN s : i <= j => ~JSONparse(SubSeq(s, i, j)).ok

\* C24: when the model's text holds no JSON object, processInvoice returns an
\* extraction failure and the invoice table, the line-item table and the stored
\* files are as they were before the call; no invoice with placeholder identity
\* fields is made from such a text.
C24_UnparseableStoresNothing ==
    \A p \in Procs :
        LET c == calls[p]
        IN  (c.op = "process" /\ c.variant = "exec" /\ c.in.isInvoice
                /\ NoJsonObjectIn(c.in.text)) =>
               /\ c.pc = "done"
               /\ c.result.outcome = "ExtractionFailed"
               /\ Snapshot = c.pre
               /\ \A r \in invoice : r.customerName # Str("Unknown Customer")

(***************************************************************************)
(* SpecFault: processInvoiceImplementation, one call at a time, where any  *)
(* awaited store operation may throw.                                      *)
(***************************************************************************)
\* the awaited store operation of call p throws and changes nothing: the catch
\* of the call turns it into the persistence failure
StoreFault(p) ==
    /\ calls[p].op = "process"
    /\ calls[p].pc \in {"findDuplicate", "updateInvoice", "deleteLineItems",
                        "saveInvoice", "saveLineItems"}
    /\ calls' = [calls EXCEPT ![p] = Done(calls[p], StoreFailure(calls[p]))]
    /\ UNCHANGED <<store, hist, pure>>

NextFault ==
    \/ \E p \in Procs :
           BeginImpl(p, {Profile1, [Profile1 EXCEPT !.lineItems = Arr(<<itemB, itemC>>)]})
    \/ \E p \in Procs : FindDuplicate(p)
    \/ \E p \in Procs : UpdateInvoice(p)
    \/ \E p \in Procs : DeleteLineItems(p)
    \/ \E p \in Procs : SaveInvoice(p)
    \/ \E p \in Procs : SaveLineItem(p)
    \/ \E p \in Procs : StoreFault(p)
    \/ \E p \in Procs : Return(p)

SpecFault == Init /\ [][NextFault]_vars

\* C25: a processInvoice call that ends with the persistence failure leaves the
\* invoice table and the line-item table exactly as they were before the call,
\* so no invoice is stored with its scalar fields written and its line items
\* missing or partly written.
C25_FailureLeavesStore ==
    \A p \in Procs :
        (calls[p].op = "process" /\ calls[p].pc = "done"
            /\ calls[p].result.outcome = "PersistenceFailed") =>
               /\ invoice = calls[p].pre.invoice
               /\ lineItem = calls[p].pre.lineItem

(***************************************************************************)
(* SpecRace: two clients, one that deletes and one that updates a stored   *)
(* invoice, interleaved at every awaited store operation.  The code        *)
(* opens the database without setting the foreign_keys pragma, so whether  *)
(* the FOREIGN KEY of LineItem is enforced is left to the build of the     *)
(* SQLite library: a statement that breaks it may take effect              *)
(* (SaveLineItem, DeleteInvoiceRow) or throw (ForeignKeyFault).            *)
(***************************************************************************)
\* the statement that call p awaits breaks the foreign key and is rejected
ForeignKeyFault(p) ==
    LET c == calls[p]
    IN  /\ \/ /\ c.op \in {"process", "put"}
              /\ c.pc = "saveLineItems"
              /\ \A r \in invoice : r.id # c.id
           \/ /\ c.op = "delete"
              /\ c.pc = "deleteInvoice"
              /\ \E k \in DOMAIN lineItem : lineItem[k].invoiceId = c.id
        /\ calls' = [calls EXCEPT ![p] =
               Done(c, IF c.op = "process" THEN StoreFailure(c)
                       ELSE Result("500", "absent",
                                   IF c.op = "put" THEN "Failed to update invoice"
                                   ELSE "Failed to delete invoice"))]
        /\ UNCHANGED <<store, hist, pure>>

\* the store after one processInvoice call has created the invoice of Profile1
InitRace ==
    /\ \E now \in Clock :
           /\ invoice = saveInvoice({}, 1, implCleanInvoiceData(Profile1),
                                    Str("invoice.pdf"), now)
           /\ lineItem = RowsOf(1, implCleanInvoiceData(Profile1).lineItems.a)
    /\ uploads = 0
    /\ nextId = 2
    /\ calls = [p \in {1, 2} |-> Idle]
    /\ hist = NoHist
    /\ pure = NoPure

\* client 1 deletes, client 2 updates (processInvoice or PUT)
NextRace ==
    \/ BeginDelete(1)
    \/ BeginImpl(2, ConcRaws)
    \/ BeginPut(2, {[PutBase EXCEPT !.lineItems = Arr(<<itemC>>)]})
    \/ \E p \in Procs : FindDuplicate(p)
    \/ \E p \in Procs : UpdateInvoice(p)
    \/ \E p \in Procs : DeleteLineItems(p)
    \/ \E p \in Procs : SaveInvoice(p)
    \/ \E p \in Procs : SaveLineItem(p)
    \/ \E p \in Procs : PutUpdate(p)
    \/ \E p \in Procs : PutDeleteLineItems(p)
    \/ \E p \in Procs : DeleteInvoiceLineItems(p)
    \/ \E p \in Procs : DeleteInvoiceRow(p)
    \/ \E p \in Procs : ForeignKeyFault(p)
    \/ \E p \in Procs : Return(p)

SpecRace == InitRace /\ [][NextRace]_vars

StoredDate(v) ==
    IF v \in {Undef, Null} THEN Null
    ELSE IF v.s \in IsoDates THEN Str(v.s \o "T00:00:00.000Z") ELSE v

\* the rows of the other invoices and the line items of the other invoices
Others(tbl, rows, id) ==
    [invoice |-> {r \in tbl : r.id # id},
     lineItem |-> SelectSeq(rows, LAMBDA r : r.invoiceId # id)]

\* the line items a request body lists, as rows of invoice id
BodyRows(id, items) ==
    [k \in DOMAIN items |->
        [invoiceId |-> id, description |-> items[k].description,
         quantity |-> items[k].quantity, unitPrice |-> items[k].unitPrice,
         total |-> items[k].total]]

\* C27: after a completed PUT of id the stored invoice id carries the scalar
\* fields of the request body (dates in their stored form); when the body has a
\* lineItems array, empty or not, the stored line items of id are exactly that
\* array, in order, and when it has none they are the ones stored before; the
\* invoices and line items of every other identifier are as they were.
C27_PutFrame ==
    \A p \in Procs :
        (calls[p].op = "put" /\ calls[p].pc = "done"
             /\ calls[p].result.outcome = "200") =>
            \E id \in {calls[p].in.id}, body \in {calls[p].in.body},
               pre \in {calls[p].pre} :
                /\ \A r \in invoice : r.id = id =>
                       /\ r.customerName = body.customerName
                       /\ r.vendorName = body.vendorName
                       /\ r.invoiceNumber = body.invoiceNumber
                       /\ r.amount = body.amount
                       /\ r.invoiceDate = StoredDate(body.invoiceDate)
                       /\ r.dueDate = StoredDate(body.dueDate)
                /\ {r.id : r \in invoice} = {r.id : r \in pre.invoice}
                /\ SelectSeq(lineItem, LAMBDA r : r.invoiceId = id) =
                       IF body.lineItems.t = "array"
                       THEN BodyRows(id, body.lineItems.a)
                       ELSE SelectSeq(pre.lineItem, LAMBDA r : r.invoiceId = id)
                /\ Others(invoice, lineItem, id) = Others(pre.invoice, pre.lineItem, id)

\* a completed PUT that replaced the line items of a stored invoice by the one
\* of its body, next to line items of another identifier
C27_Witness ==
    \E p \in Procs :
        /\ calls[p].op = "put"
        /\ calls[p].pc = "done"
        /\ calls[p].result.outcome = "200"
        /\ calls[p].in.body.lineItems = Arr(<<itemC>>)
        /\ \E r \in calls[p].pre.invoice :
               r.id = calls[p].in.id /\ r.invoiceNumber # calls[p].in.body.invoiceNumber
        /\ \E k \in DOMAIN calls[p].pre.lineItem :
               calls[p].pre.lineItem[k].invoiceId = calls[p].in.id
        /\ \E k \in DOMAIN lineItem : lineItem[k].invoiceId # calls[p].in.id

(***************************************************************************)
(* SpecUpload: uploads through the invoice block.  Each client runs         *)
(* handleProcessInvoice, the server answers with POST /api/process-invoice, *)
(* and the client reads the response.  A call record of op "upload" holds   *)
(* the block's isProcessing flag, the response and the state of the         *)
(* TransformStream of the response: the chunks written and not yet read,    *)
(* and whether its writer was closed.                                       *)
(***************************************************************************)
FileTypes == {"application/pdf", "image/png", "text/plain"}

\* the arguments POST hands to processInvoiceImplementation name the file and
\* set updateIfExists; fileContent and dataStream are not parameters of the
\* function, and no extracted field is passed
RouteArgs == EmptyRaw

\* handleProcessInvoice up to the fetch
HandleProcessInvoice(p) ==
    /\ calls[p].op = "idle"
    /\ \E selectedFile \in {"none"} \cup FileTypes :
         calls' = [calls EXCEPT ![p] =
             [op |-> "upload",
              pc |-> IF selectedFile = "none" THEN "done" ELSE "fetch",
              file |-> selectedFile,
              isProcessing |-> selectedFile # "none",
              toast |-> IF selectedFile = "none"
                        THEN "Please select an invoice file first" ELSE "",
              status |-> 0, chunks |-> <<>>, closed |-> FALSE, result |-> Undef]]
    /\ UNCHANGED <<store, hist, pure>>

\* the POST handler: the session and file checks, the awaited call of
\* processInvoiceImplementation, and the response.  writeData is the only
\* code that writes to or closes the writer; processInvoiceImplementation
\* never calls it, so the response carries the stream as it was created.
POST(p) ==
    LET c == calls[p]
    IN  /\ c.op = "upload"
        /\ c.pc = "fetch"
        \* thrown: the form data of the request cannot be read
        /\ \E development \in BOOLEAN, session \in BOOLEAN, thrown \in BOOLEAN :
             calls' = [calls EXCEPT ![p] =
                 IF ~development /\ ~session
                 THEN [c EXCEPT !.pc = "response", !.status = 401]
                 ELSE IF thrown
                 THEN [c EXCEPT !.pc = "response", !.status = 500]
                 ELSE IF c.file \notin {"application/pdf", "image/jpeg", "image/png"}
                 THEN [c EXCEPT !.pc = "response", !.status = 400]
                 ELSE [c EXCEPT !.pc = "response", !.status = 200,
                                !.result = implPrelude(RouteArgs).result]]
        /\ UNCHANGED <<store, hist, pure>>

\* handleProcessInvoice from the resolved fetch on: the check of response.ok,
\* then one reader.read() of the loop.  A read of a stream that has no chunk
\* and is not closed stays pending.
ReadResponse(p) ==
    LET c == calls[p]
        finally(d) == [d EXCEPT !.pc = "done", !.isProcessing = FALSE]
    IN  /\ c.op = "upload"
        /\ c.pc \in {"response", "read"}
        /\ calls' = [calls EXCEPT ![p] =
               IF c.status # 200
               THEN finally([c EXCEPT !.toast = "Failed to process invoice"])
               ELSE IF c.chunks # <<>>
               THEN [c EXCEPT !.pc = "read", !.chunks = Tail(c.chunks),
                              !.isProcessing =
                                  IF Head(c.chunks).type \in {"invoice-processed", "error"}
                                  THEN FALSE ELSE c.isProcessing]
               ELSE IF c.closed
               THEN finally(c)
               ELSE [c EXCEPT !.pc = "pending"]]
        /\ UNCHANGED <<store, hist, pure>>

NextUpload ==
    \/ \E p \in Procs : HandleProcessInvoice(p)
    \/ \E p \in Procs : POST(p)
    \/ \E p \in Procs : ReadResponse(p)

SpecUpload == InitConc /\ [][NextUpload]_vars

\* a request that was sent is answered, and a continuation of a client that is
\* ready to run is run by its event loop; no user is bound to upload
SpecUploadLive ==
    SpecUpload /\ \A p \in {1, 2} : WF_vars(POST(p)) /\ WF_vars(ReadResponse(p))

\* C28: after an upload the response stream is written with the final result
\* and closed, the read loop of the client ends and isProcessing returns to
\* false: a block that is processing is eventually not processing.
C28_UploadTerminates ==
    \A p \in {1, 2} :
        (calls[p].op = "upload" /\ calls[p].isProcessing)
            ~> (calls[p].op = "upload" /\ ~calls[p].isProcessing)

(***************************************************************************)
(* SpecStream: the data stream of a chat and its DataStreamHandler.  The    *)
(* server writes the deltas of createDocument; they reach the client's      *)
(* dataStream in batches of any size; the effect of DataStreamHandler runs  *)
(* after any render.  A call record of op "chat" holds the deltas written   *)
(* and not yet delivered (wire), dataStream, the ref lastProcessedIndex,    *)
(* the block and the isProcessing flag of its metadata.  applied is the     *)
(* record of the deltas the effect processed: the index of each in          *)
(* dataStream, the kind whose block definition it was dispatched to, and    *)
(* the run of the effect that processed it; unseen counts the deltas        *)
(* delivered since the last run.                                            *)
(***************************************************************************)
MaxDeltas == 12
MaxRuns == 3

initialBlockData ==
    [documentId |-> "init", content |-> "", kind |-> "text", title |-> "",
     status |-> "idle"]

Delta(type, content) == [type |-> type, content |-> content]

\* the deltas createDocument writes for one document: its own, and between
\* 'clear' and 'finish' those of the document handler of the kind
createDocument(kind, id) ==
    <<Delta("kind", kind), Delta("id", id), Delta("title", "Invoices"),
      Delta("clear", "")>>
    \o (IF kind = "invoice" THEN <<Delta("processing-status", "idle")>>
        ELSE <<Delta("text-delta", "a")>>)
    \o <<Delta("finish", "")>>

InitStream ==
    /\ invoice = {}
    /\ lineItem = <<>>
    /\ uploads = 0
    /\ nextId = 1
    /\ calls = [p \in {1} |->
                  [op |-> "chat", wire |-> <<>>, dataStream |-> <<>>,
                   lastProcessedIndex |-> 0 - 1, block |-> initialBlockData,
                   isProcessing |-> "unset", applied |-> <<>>, runs |-> 0,
                   unseen |-> 0, documents |-> 0]]
    /\ hist = NoHist
    /\ pure = NoPure

\* the server runs the createDocument tool
CreateDocument(p) ==
    LET c == calls[p]
    IN  /\ c.op = "chat"
        /\ \E kind \in {"text", "invoice"} :
             \E ds \in {createDocument(kind, IF c.documents = 0 THEN "doc1" ELSE "doc2")} :
               /\ Len(c.wire) + Len(c.dataStream) + Len(ds) <= MaxDeltas
               /\ calls' = [calls EXCEPT ![p] =
                      [c EXCEPT !.wire = c.wire \o ds, !.documents = c.documents + 1]]
        /\ UNCHANGED <<store, hist, pure>>

\* useChat appends the next n deltas that arrived to its data
Deliver(p) ==
    LET c == calls[p]
    IN  /\ c.op = "chat"
        /\ \E n \in 1 .. Len(c.wire) :
             calls' = [calls EXCEPT ![p] =
                 [c EXCEPT !.dataStream = c.dataStream \o SubSeq(c.wire, 1, n),
                           !.wire = SubSeq(c.wire, n + 1, Len(c.wire)),
                           !.unseen = c.unseen + n]]
        /\ UNCHANGED <<store, hist, pure>>

\* an effect that takes the whole stream at every run
newDeltas_all(dataStream, lastProcessedIndex) == 1 .. Len(dataStream)

\* dataStream.slice(lastProcessedIndex + 1), as positions of dataStream
\* counted from 1
newDeltas(dataStream, lastProcessedIndex) ==
    (lastProcessedIndex + 2) .. Len(dataStream)

\* onStreamPart of the block definition of a kind; only that of the invoice
\* block changes the block or its metadata on the deltas of this model
onStreamPart(kind, delta, c) ==
    IF kind = "invoice" /\ delta.type = "processing-status"
    THEN [c EXCEPT !.isProcessing =
                       IF delta.content = "processing" THEN "true" ELSE "false",
                   !.block.status =
                       IF delta.content = "processing" THEN "streaming" ELSE "idle"]
    ELSE c

\* the updater handed to setBlock for one delta
setBlock(delta, draftBlock) ==
    CASE delta.type = "id" ->
           [draftBlock EXCEPT !.documentId = delta.content, !.status = "streaming"]
      [] delta.type = "title" ->
           [draftBlock EXCEPT !.title = delta.content, !.status = "streaming"]
      [] delta.type = "kind" ->
           [draftBlock EXCEPT !.kind = delta.content, !.status = "streaming"]
      [] delta.type = "clear" ->
           [draftBlock EXCEPT !.content = "", !.status = "streaming"]
      [] delta.type = "finish" -> [draftBlock EXCEPT !.status = "idle"]
      [] OTHER -> draftBlock

\* the forEach of the effect over the positions new of dataStream, in
\* ascending order; block is the block of the render the effect belongs to
RECURSIVE forEach(_, _, _)
forEach(c, new, block) ==
    IF new = {} THEN c
    ELSE LET k == CHOOSE i \in new : \A j \in new : i <= j
             d == onStreamPart(block.kind, c.dataStream[k], c)
         IN  forEach([d EXCEPT !.block = setBlock(c.dataStream[k], d.block),
                               !.applied = Append(d.applied,
                                   [index |-> k - 1, handler |-> block.kind,
                                    run |-> c.runs])],
                     new \ {k}, block)

\* one run of the effect of DataStreamHandler
Effect(p) ==
    LET c == calls[p]
    IN  /\ c.op = "chat"
        /\ calls' = [calls EXCEPT ![p] =
               IF Len(c.dataStream) = 0 THEN c
               ELSE forEach([c EXCEPT
                                !.lastProcessedIndex = Len(c.dataStream) - 1,
                                !.runs = IF c.runs < MaxRuns THEN c.runs + 1 ELSE c.runs,
                                !.unseen = 0],
                            newDeltas(c.dataStream, c.lastProcessedIndex),
                            c.block)]
        /\ UNCHANGED <<store, hist, pure>>

NextStream ==
    \/ \E p \in Procs : CreateDocument(p)
    \/ \E p \in Procs : Deliver(p)
    \/ \E p \in Procs : Effect(p)

SpecStream == InitStream /\ [][NextStream]_vars

\* C29: the deltas the effect has processed are those of dataStream up to
\* lastProcessedIndex, each once and in stream order, and after a run of the
\* effect every delta that has arrived is among them, however the stream grew
\* and however often the effect ran.
C29_EachDeltaOnce ==
    \A p \in Procs :
        calls[p].op = "chat" =>
            /\ Len(calls[p].applied) = calls[p].lastProcessedIndex + 1
            /\ \A k \in DOMAIN calls[p].applied : calls[p].applied[k].index = k - 1
            /\ Len(calls[p].applied) + calls[p].unseen = Len(calls[p].dataStream)

\* deltas processed in different runs of the effect, a run that found nothing
\* new among them, and nothing left unprocessed
C29_Witness ==
    \E p \in Procs :
        /\ calls[p].op = "chat"
        /\ calls[p].runs = MaxRuns
        /\ calls[p].unseen = 0
        /\ Len(calls[p].applied) >= 6
        /\ {calls[p].applied[k].run : k \in DOMAIN calls[p].applied} = {1, 3}

\* the kind of the block once the deltas before position k are applied
KindInEffect(dataStream, k) ==
    IF \E j \in 1 .. (k - 1) : dataStream[j].type = "kind"
    THEN dataStream[CHOOSE j \in 1 .. (k - 1) :
                        /\ dataStream[j].type = "kind"
                        /\ \A i \in (j + 1) .. (k - 1) : dataStream[i].type # "kind"].content
    ELSE "text"

\* C30: every delta is dispatched to the onStreamPart of the block kind in
\* effect once all earlier deltas are applied; a 'processing-status' delta
\* that follows the 'kind' delta of an invoice document in the same batch
\* reaches the handler of the invoice block.
C30_DispatchToCurrentKind ==
    \A p \in Procs :
        calls[p].op = "chat" =>
            \A k \in DOMAIN calls[p].applied :
                calls[p].applied[k].handler = KindInEffect(calls[p].dataStream, k)

=============================================================================
